---- MODULE Spec2Model ----
(***************************************************************************)
(* DOCX autofill: the multi-strategy filler (filling_strategies.py), the   *)
(* three-tier validator (validation_module.py), the extraction merge       *)
(* (extraction_module.py) and the fill_fields tool (docx_tools.py).        *)
(*                                                                         *)
(* Text is a sequence of one-character strings, so substring tests,        *)
(* strip() and XML escaping are computed character by character.  The main *)
(* part word/document.xml is a typed tree: paragraphs own runs, a run owns *)
(* at most one run-properties child and some text children; structured     *)
(* tags and table cells own their text children directly.                  *)
(***************************************************************************)
EXTENDS Integers, Sequences, FiniteSets, TLC

\* doc: the tree of word/document.xml in the unpacked directory; env: the directory
\* (its parts, whether the main part can be read and declares XML, what a save
\* does); ret: the last call, its arguments and what it returned
VARIABLES doc, env, ret

vars == <<doc, env, ret>>

---------------------------------------------------------------------------
(* Python str operations *)

\* Python `sub in s`
Contains(s, sub) ==
    \E i \in 0..(Len(s) - Len(sub)) : SubSeq(s, i + 1, i + Len(sub)) = sub

\* Python s.startswith(p)
StartsWith(s, p) == Len(s) >= Len(p) /\ SubSeq(s, 1, Len(p)) = p

RECURSIVE LStrip(_, _)
LStrip(s, cs) == IF s # <<>> /\ Head(s) \in cs THEN LStrip(Tail(s), cs) ELSE s

RECURSIVE RStrip(_, _)
RStrip(s, cs) ==
    IF s # <<>> /\ s[Len(s)] \in cs THEN RStrip(SubSeq(s, 1, Len(s) - 1), cs) ELSE s

\* Python s.strip(cs)
Strip(s, cs) == RStrip(LStrip(s, cs), cs)

\* Python ''.join(parts)
RECURSIVE Join(_)
Join(parts) == IF parts = <<>> THEN <<>> ELSE Head(parts) \o Join(Tail(parts))

\* the members of a list, and the index of the first occurrence of x in it
Range(s) == {s[i] : i \in 1..Len(s)}

\* the characters str.strip() removes by default, as far as the alphabet has them
Whitespace == {" "}

---------------------------------------------------------------------------
(* xml.dom.minidom: serialisation and parsing of character data *)

EscapeChar(c) ==
    CASE c = "&" -> <<"&", "a", "m", "p", ";">>
      [] c = "<" -> <<"&", "l", "t", ";">>
      [] c = ">" -> <<"&", "g", "t", ";">>
      [] c = "\"" -> <<"&", "q", "u", "o", "t", ";">>
      [] OTHER -> <<c>>

\* what toxml() writes for a text node or an attribute value
RECURSIVE XmlEscape(_)
XmlEscape(s) == IF s = <<>> THEN <<>> ELSE EscapeChar(Head(s)) \o XmlEscape(Tail(s))

\* A value pasted between <w:t> and </w:t> parses as one text node only when it
\* holds no markup character; otherwise the fragment parser raises.
WellFormedText(value) == ~("<" \in Range(value)) /\ ~("&" \in Range(value))

NoRPr == "none"

\* rpr_list[0].toxml() if rpr_list else ""
RprToXml(rpr) == IF rpr = NoRPr THEN <<>> ELSE <<"<w:rPr>", rpr, "</w:rPr>">>

\* the run that `<w:r>{rpr_xml}<w:t>{value}</w:t></w:r>` parses to
\* the replacement markup without the run-properties
ReplacementRun_plain(rpr_xml, value) ==
    [rpr |-> NoRPr, ts |-> <<value>>, id |-> <<>>, direct |-> TRUE]

ReplacementRun(rpr_xml, value) ==
    [rpr |-> IF rpr_xml = <<>> THEN NoRPr ELSE rpr_xml[2],
     ts |-> <<value>>, id |-> <<>>, direct |-> TRUE]

---------------------------------------------------------------------------
(* the document tree *)

\* text of a node: the concatenation of its text children (a childless <w:t/> is <<>>)
RunText(run) == Join(run.ts)

ParaText(para) == Join([i \in 1..Len(para.runs) |-> RunText(para.runs[i])])

NotFound == <<0, 0>>

RunPositions(paras) ==
    UNION {{<<p, r>> : r \in 1..Len(paras[p].runs)} : p \in 1..Len(paras)}

Before(a, b) == a[1] < b[1] \/ (a[1] = b[1] /\ a[2] <= b[2])

FirstOf(hits) ==
    IF hits = {} THEN NotFound ELSE CHOOSE h \in hits : \A g \in hits : Before(h, g)

\* XmlHandle.find(tag="w:r", contains=...): the first run in document order whose
\* text contains the string; NotFound stands for the raised ValueError
get_node_contains(paras, contains) ==
    FirstOf({pos \in RunPositions(paras) :
                Contains(RunText(paras[pos[1]].runs[pos[2]]), contains)})

\* XmlHandle.find(tag="w:r", attrs={"w:id": elem_id})
get_node_attrs(paras, elem_id) ==
    FirstOf({pos \in RunPositions(paras) : paras[pos[1]].runs[pos[2]].id = elem_id})

\* XmlHandle.replace(node, markup): the node is swapped for the parsed subtree
replace_node(paras, pos, new_run) ==
    [paras EXCEPT ![pos[1]].runs[pos[2]] = [new_run EXCEPT !.direct = paras[pos[1]].runs[pos[2]].direct]]

---------------------------------------------------------------------------
(* FillingResult *)

NewResult == [filled |-> <<>>, skipped |-> <<>>, errors |-> <<>>]

add_filled(res, field_name) ==
    IF field_name \in Range(res.filled) THEN res
    ELSE [res EXCEPT !.filled = Append(@, field_name)]

add_skipped(res, field_name, reason) ==
    [res EXCEPT !.skipped = Append(@, <<field_name, reason>>)]

add_error(res, field_name, error) ==
    [res EXCEPT !.errors = Append(@, <<field_name, error>>)]

---------------------------------------------------------------------------
(* Strategy A: marker replacement in a single run *)

Delimiters == {"{", "}", " ", "[", "]", "_", "<", ">"}

\* the formats with the square brackets tried before the curly braces
try_placeholder_formats_brackets_first(placeholder_name) ==
    LET clean_name == Strip(placeholder_name, Delimiters)
    IN  << <<"[">> \o clean_name \o <<"]">>,
           <<"{", "{">> \o clean_name \o <<"}", "}">>,
           <<"_", "_">> \o clean_name \o <<"_", "_">>,
           <<"<", "<">> \o clean_name \o <<">", ">">> >>

try_placeholder_formats(placeholder_name) ==
    LET clean_name == Strip(placeholder_name, Delimiters)
    IN  << <<"{", "{">> \o clean_name \o <<"}", "}">>,
           <<"[">> \o clean_name \o <<"]">>,
           <<"_", "_">> \o clean_name \o <<"_", "_">>,
           <<"<", "<">> \o clean_name \o <<">", ">">> >>

RECURSIVE StrategyA_field_every_run(_, _, _, _)
\* the handling of one field that goes on replacing while a run holds the format
StrategyA_field_every_run(st, placeholder_name, value, i) ==
    LET formats_to_try == try_placeholder_formats(placeholder_name)
    IN  IF i > Len(formats_to_try)
        THEN IF \E k \in 1..Len(st.log) : st.log[k].name = placeholder_name THEN st
             ELSE [st EXCEPT !.res = add_skipped(@, placeholder_name,
                                                 "No matching placeholder format found")]
        ELSE LET pos == get_node_contains(st.paras, formats_to_try[i])
             IN  IF pos = NotFound
                 THEN StrategyA_field_every_run(st, placeholder_name, value, i + 1)
                 ELSE LET node == st.paras[pos[1]].runs[pos[2]]
                          after == replace_node(st.paras, pos,
                                                ReplacementRun(RprToXml(node.rpr), value))
                      IN  IF ~WellFormedText(value)
                          THEN [st EXCEPT !.res = add_error(@, placeholder_name, "not well-formed")]
                          ELSE StrategyA_field_every_run(
                                  [paras |-> after,
                                   res |-> add_filled(st.res, placeholder_name),
                                   log |-> Append(st.log,
                                             [name |-> placeholder_name,
                                              format |-> i, at |-> pos, old |-> node,
                                              new |-> after[pos[1]].runs[pos[2]],
                                              before |-> st.paras, after |-> after])],
                                  placeholder_name, value, i)

\* One pass of the inner loop, from format i on, for one mapping entry.  st holds
\* the tree, the FillingResult and the record of the replacements made.
RECURSIVE StrategyA_field(_, _, _, _)
StrategyA_field(st, placeholder_name, value, i) ==
    LET formats_to_try == try_placeholder_formats(placeholder_name)
    IN  IF i > Len(formats_to_try)
        THEN [st EXCEPT !.res = add_skipped(@, placeholder_name,
                                            "No matching placeholder format found")]
        ELSE LET pos == get_node_contains(st.paras, formats_to_try[i])
             IN  IF pos = NotFound
                 THEN StrategyA_field(st, placeholder_name, value, i + 1)
                 ELSE LET node == st.paras[pos[1]].runs[pos[2]]
                          rpr_xml == RprToXml(node.rpr)
                      IN  IF ~WellFormedText(value)
                          THEN [st EXCEPT !.res = add_error(@, placeholder_name, "not well-formed")]
                          ELSE LET after == replace_node(st.paras, pos, ReplacementRun(rpr_xml, value))
                               IN  [paras |-> after,
                                    res |-> add_filled(st.res, placeholder_name),
                                    log |-> Append(st.log,
                                              [name |-> placeholder_name,
                                               format |-> i, at |-> pos, old |-> node,
                                               new |-> after[pos[1]].runs[pos[2]],
                                               before |-> st.paras, after |-> after])]

RECURSIVE StrategyA_loop_aborting(_, _)
RECURSIVE StrategyA_loop(_, _)
\* the loop over the placeholders ending at the first field that raised
StrategyA_loop_aborting(st, placeholders) ==
    IF placeholders = <<>> \/ st.res.errors # <<>> THEN st
    ELSE StrategyA_loop_aborting(
            StrategyA_field(st, Head(placeholders)[1], Head(placeholders)[2], 1),
            Tail(placeholders))

StrategyA_loop(st, placeholders) ==
    IF placeholders = <<>> THEN st
    ELSE StrategyA_loop(
            StrategyA_field(st, Head(placeholders)[1], Head(placeholders)[2], 1),
            Tail(placeholders))

\* StrategyA.fill(doc, placeholders); placeholders is the dict as its item list
StrategyA_fill(paras, placeholders) ==
    StrategyA_loop([paras |-> paras, res |-> NewResult, log |-> <<>>], placeholders)

---------------------------------------------------------------------------
(* Strategy B: structured data tags *)

Keys(placeholders) == {placeholders[i][1] : i \in 1..Len(placeholders)}

\* placeholders[field_name]
Lookup(placeholders, field_name) ==
    placeholders[CHOOSE i \in 1..Len(placeholders) : placeholders[i][1] = field_name][2]

\* the body of the loop over the structured tags, for the tag at index k
\* Strategy B adding the value to the control's text instead of setting it
StrategyB_sdt_appending(st, placeholders, k) ==
    LET sdt == st.sdts[k]
        field_name == sdt.alias
    IN  IF field_name = <<>> \/ field_name \notin Keys(placeholders)
        THEN st
        ELSE IF ~sdt.content
        THEN [st EXCEPT !.res = add_skipped(@, field_name, "No sdtContent found")]
        ELSE IF sdt.ts = <<>>
        THEN [st EXCEPT !.res = add_skipped(@, field_name, "No w:t element in content")]
        ELSE IF sdt.ts[1] = <<>>
        THEN [st EXCEPT !.res = add_error(@, field_name, "'NoneType' object has no attribute 'nodeValue'")]
        ELSE [st EXCEPT !.sdts[k].ts[1] = @ \o Lookup(placeholders, field_name),
                        !.res = add_filled(@, field_name)]

StrategyB_sdt(st, placeholders, k) ==
    LET sdt == st.sdts[k]
        field_name == sdt.alias
    IN  IF field_name = <<>> \/ field_name \notin Keys(placeholders)
        THEN st
        ELSE IF ~sdt.content
        THEN [st EXCEPT !.res = add_skipped(@, field_name, "No sdtContent found")]
        ELSE IF sdt.ts = <<>>
        THEN [st EXCEPT !.res = add_skipped(@, field_name, "No w:t element in content")]
        ELSE IF sdt.ts[1] = <<>>
        \* text_elems[0].firstChild is None: the assignment raises AttributeError
        THEN [st EXCEPT !.res = add_error(@, field_name, "'NoneType' object has no attribute 'nodeValue'")]
        ELSE [st EXCEPT !.sdts[k].ts[1] = Lookup(placeholders, field_name),
                        !.res = add_filled(@, field_name)]

RECURSIVE StrategyB_loop(_, _, _)
StrategyB_loop(st, placeholders, k) ==
    IF k > Len(st.sdts) THEN st
    ELSE StrategyB_loop(StrategyB_sdt(st, placeholders, k), placeholders, k + 1)

StrategyB_fill(sdts, placeholders) ==
    StrategyB_loop([sdts |-> sdts, res |-> NewResult], placeholders, 1)

---------------------------------------------------------------------------
(* Strategy C: runs addressed by their w:id attribute *)

StrategyC_field(st, elem_id, new_value) ==
    LET pos == get_node_attrs(st.paras, elem_id)
    IN  IF pos = NotFound
        THEN [st EXCEPT !.res = add_skipped(@, elem_id, "Element not found")]
        ELSE IF st.paras[pos[1]].runs[pos[2]].ts = <<>>
        THEN [st EXCEPT !.res = add_skipped(@, elem_id, "No w:t element found")]
        ELSE IF st.paras[pos[1]].runs[pos[2]].ts[1] = <<>>
        THEN [st EXCEPT !.res = add_error(@, elem_id, "'NoneType' object has no attribute 'nodeValue'")]
        ELSE [st EXCEPT !.paras[pos[1]].runs[pos[2]].ts[1] = new_value,
                        !.res = add_filled(@, elem_id)]

RECURSIVE StrategyC_loop(_, _)
StrategyC_loop(st, id_mapping) ==
    IF id_mapping = <<>> THEN st
    ELSE StrategyC_loop(StrategyC_field(st, Head(id_mapping)[1], Head(id_mapping)[2]),
                        Tail(id_mapping))

StrategyC_fill(paras, id_mapping) ==
    StrategyC_loop([paras |-> paras, res |-> NewResult], id_mapping)

---------------------------------------------------------------------------
(* Strategy D: markers split across the runs of a paragraph *)

\* The state of one paragraph while its mapping entries are processed: the runs
\* inserted after the paragraph properties, the runs of the snapshot text_runs
\* still attached, and the runs appended at the end.
ParaRuns(w) == w.front \o w.orig \o w.back

\* Strategy D without the removal of the paragraph's runs
StrategyD_field_keeping_runs(st, w, p, original, placeholder_name, value) ==
    LET search_text == <<"{", "{">> \o placeholder_name \o <<"}", "}">>
        text_runs == original.runs
        rpr_xml == IF text_runs # <<>> THEN RprToXml(text_runs[1].rpr) ELSE <<>>
        new_run == ReplacementRun(rpr_xml, value)
        inserted == IF original.ppr
                    THEN [w EXCEPT !.front = <<new_run>> \o @]
                    ELSE [w EXCEPT !.back = Append(@, new_run)]
    IN  IF ~Contains(ParaText(original), search_text)
        THEN [st |-> st, w |-> w]
        ELSE IF ~WellFormedText(value)
        THEN [st |-> [st EXCEPT !.res = add_error(@, placeholder_name, "not well-formed")],
              w |-> w]
        ELSE [st |-> [st EXCEPT !.res = add_filled(@, placeholder_name),
                                !.log = Append(@,
                                    [name |-> placeholder_name, para |-> p,
                                     first |-> text_runs[1].rpr, new |-> new_run,
                                     before |-> [ppr |-> original.ppr, runs |-> ParaRuns(w)],
                                     after |-> [ppr |-> original.ppr, runs |-> ParaRuns(inserted)]])],
              w |-> inserted]

StrategyD_field(st, w, p, original, placeholder_name, value) ==
    LET search_text == <<"{", "{">> \o placeholder_name \o <<"}", "}">>
        combined_text == ParaText(original)
        text_runs == original.runs
        rpr_xml == IF text_runs # <<>> THEN RprToXml(text_runs[1].rpr) ELSE <<>>
        \* runs of the snapshot whose parentNode is still the paragraph are removed
        removed == [w EXCEPT !.orig = SelectSeq(@, LAMBDA run : ~run.direct)]
        new_run == ReplacementRun(rpr_xml, value)
        inserted == IF original.ppr
                    THEN [removed EXCEPT !.front = <<new_run>> \o @]
                    ELSE [removed EXCEPT !.back = Append(@, new_run)]
    IN  IF ~Contains(combined_text, search_text)
        THEN [st |-> st, w |-> w]
        ELSE IF ~WellFormedText(value)
        THEN [st |-> [st EXCEPT !.res = add_error(@, placeholder_name, "not well-formed")],
              w |-> removed]
        ELSE [st |-> [st EXCEPT !.res = add_filled(@, placeholder_name),
                                !.log = Append(@,
                                    [name |-> placeholder_name, para |-> p,
                                     first |-> text_runs[1].rpr, new |-> new_run,
                                     before |-> [ppr |-> original.ppr, runs |-> ParaRuns(w)],
                                     after |-> [ppr |-> original.ppr, runs |-> ParaRuns(inserted)]])],
              w |-> inserted]

RECURSIVE StrategyD_fields(_, _, _, _, _)
StrategyD_fields(st, w, p, original, placeholders) ==
    IF placeholders = <<>> THEN [st |-> st, w |-> w]
    ELSE LET r == StrategyD_field(st, w, p, original,
                                  Head(placeholders)[1], Head(placeholders)[2])
         IN  StrategyD_fields(r.st, r.w, p, original, Tail(placeholders))

RECURSIVE StrategyD_loop(_, _, _)
StrategyD_loop(st, placeholders, p) ==
    IF p > Len(st.paras) THEN st
    ELSE LET original == st.paras[p]
             r == StrategyD_fields(st, [front |-> <<>>, orig |-> original.runs, back |-> <<>>],
                                   p, original, placeholders)
         IN  StrategyD_loop([r.st EXCEPT !.paras[p].runs = ParaRuns(r.w)], placeholders, p + 1)

StrategyD_fill(paras, placeholders) ==
    StrategyD_loop([paras |-> paras, res |-> NewResult, log |-> <<>>], placeholders, 1)

---------------------------------------------------------------------------
(* the unpacked directory and Document.save *)

MainPart == "word/document.xml"

\* Document(unpacked_dir)["word/document.xml"] parses the part on first access
Loadable(e) == MainPart \in e.files /\ e.readable

\* Tree.save(validate=False): e.save is "ok", or the kind of message of the
\* exception the save raises in this directory
SaveRaises(e) == e.save # "ok"

\* the directory after a save that did not raise: the main part is rewritten by
\* the DOM's serialiser, which writes the XML declaration
Saved(e) == [e EXCEPT !.decl = TRUE]

---------------------------------------------------------------------------
(* Strategy E: table rows *)

CellText(cell) == Join(cell)

\* header_names, one per header cell
HeaderNames(header_row) ==
    [i \in 1..Len(header_row) |-> Strip(CellText(header_row[i]), Whitespace)]

\* the cells of the clone that the record overwrites
Overwritten(template_row, header_names, row_data) ==
    {c \in 1..Len(template_row) :
        /\ c <= Len(header_names)
        /\ header_names[c] \in DOMAIN row_data
        /\ template_row[c] # <<>>}

\* the body of the loop over the records: the clone is appended unless writing a
\* cell raised (the first text node of the cell has no child)
StrategyE_row(st, header_row, template_row, row_idx, row_data) ==
    LET header_names == HeaderNames(header_row)
        cells == Overwritten(template_row, header_names, row_data)
        new_row == [c \in 1..Len(template_row) |->
                      IF c \in cells
                      THEN [template_row[c] EXCEPT ![1] = row_data[header_names[c]]]
                      ELSE template_row[c]]
    IN  IF \E c \in cells : template_row[c][1] = <<>>
        THEN [st EXCEPT !.res = add_error(@, <<"row", row_idx>>,
                                          "'NoneType' object has no attribute 'nodeValue'")]
        ELSE [st EXCEPT !.table = Append(@, new_row),
                        !.res = add_filled(@, <<"row", row_idx>>)]

RECURSIVE StrategyE_rows(_, _, _, _, _)
StrategyE_rows(st, header_row, template_row, row_idx, row_data_list) ==
    IF row_idx >= Len(row_data_list) THEN st
    ELSE StrategyE_rows(
            StrategyE_row(st, header_row, template_row, row_idx, row_data_list[row_idx + 1]),
            header_row, template_row, row_idx + 1, row_data_list)

\* StrategyE.fill(doc, table_index, row_data_list); table_index counts from 0
StrategyE_fill(tables, table_index, row_data_list) ==
    IF table_index >= Len(tables)
    THEN [tables |-> tables,
          res |-> add_error(NewResult, <<"table", table_index>>, "Table not found")]
    ELSE LET rows == tables[table_index + 1]
         IN  IF Len(rows) < 2
             THEN [tables |-> tables,
                   res |-> add_error(NewResult, <<"table", table_index>>, "No template row found")]
             ELSE LET st == StrategyE_rows([table |-> SubSeq(rows, 1, 2), res |-> NewResult],
                                           rows[1], rows[2], 0, row_data_list)
                  IN  [tables |-> [tables EXCEPT ![table_index + 1] = st.table],
                       res |-> st.res]

---------------------------------------------------------------------------
(* Strategy F: conditional content *)

\* the body of the loop over conditions.items()
StrategyF_condition(res, condition_name, show_content) ==
    IF show_content
    THEN add_filled(res, condition_name)
    ELSE add_skipped(res, condition_name, "Conditional sections not yet implemented")

RECURSIVE StrategyF_loop(_, _)
StrategyF_loop(res, conditions) ==
    IF conditions = <<>> THEN res
    ELSE StrategyF_loop(StrategyF_condition(res, Head(conditions)[1], Head(conditions)[2]),
                        Tail(conditions))

\* StrategyF.fill(doc, conditions); conditions is the dict as its item list.  The
\* document is only looked up, never written.
StrategyF_fill(tree, conditions) == [tree |-> tree, res |-> StrategyF_loop(NewResult, conditions)]

---------------------------------------------------------------------------
(* MultiStrategyFiller *)

field_ == <<"f", "i", "e", "l", "d", "_">>

has_element_ids(placeholders) ==
    \E i \in 1..Len(placeholders) : StartsWith(placeholders[i][1], field_)

convert_to_id_mapping(placeholders) ==
    SelectSeq(placeholders, LAMBDA item : StartsWith(item[1], field_))

\* fill_with_all_strategies(placeholders) on the tree of self.doc; results is the
\* dict self.results in insertion order; raised tells that the final save raised
fill_with_all_strategies(tree, e, placeholders) ==
    LET a == StrategyA_fill(tree.paras, placeholders)
        b == StrategyB_fill(tree.sdts, placeholders)
        withC == has_element_ids(placeholders)
        c == IF withC THEN StrategyC_fill(a.paras, convert_to_id_mapping(placeholders))
             ELSE [paras |-> a.paras, res |-> NewResult]
        d == StrategyD_fill(c.paras, placeholders)
    IN  [tree |-> [tree EXCEPT !.paras = d.paras, !.sdts = b.sdts],
         results |-> <<[strategy |-> "A-Text", res |-> a.res],
                       [strategy |-> "B-SDT", res |-> b.res]>>
                     \o (IF withC THEN <<[strategy |-> "C-ID", res |-> c.res]>> ELSE <<>>)
                     \o <<[strategy |-> "D-Multirun", res |-> d.res]>>,
         logA |-> a.log, logD |-> d.log,
         afterA |-> a.paras, beforeD |-> c.paras,
         raised |-> SaveRaises(e)]

\* fill_table(table_index, table_data): Strategy E, then the save
fill_table(tree, e, table_index, table_data) ==
    LET r == StrategyE_fill(tree.tables, table_index, table_data)
    IN  [tree |-> [tree EXCEPT !.tables = r.tables], res |-> r.res, raised |-> SaveRaises(e)]

---------------------------------------------------------------------------
(* ValidationResult and the three tiers *)

NewValidation == [passed |-> <<>>, failed |-> <<>>, warnings |-> <<>>]

add_pass(v, check, message) == [v EXCEPT !.passed = Append(@, <<check, message>>)]

add_fail(v, check, message) == [v EXCEPT !.failed = Append(@, <<check, message>>)]

add_warning(v, check, message) == [v EXCEPT !.warnings = Append(@, <<check, message>>)]

is_valid(v) == Len(v.failed) = 0

TextNodes(tree) ==
    UNION {Range(tree.paras[pos[1]].runs[pos[2]].ts) : pos \in RunPositions(tree.paras)}
    \cup UNION {Range(tree.sdts[k].ts) : k \in 1..Len(tree.sdts)}
    \cup UNION {UNION {UNION {Range(tree.tables[t][r][c]) : c \in 1..Len(tree.tables[t][r])}
                       : r \in 1..Len(tree.tables[t])}
                : t \in 1..Len(tree.tables)}

AttributeValues(tree) ==
    {tree.paras[pos[1]].runs[pos[2]].id : pos \in RunPositions(tree.paras)}
    \cup {tree.sdts[k].alias : k \in 1..Len(tree.sdts)}

\* The character data and attribute values of doc_xml.dom.toxml().  Markup lies
\* between any two of them, so a marker {{name}} whose name holds no markup
\* character occurs in the serialisation exactly when it occurs in one of them.
Serialized(tree) == {XmlEscape(t) : t \in TextNodes(tree) \cup AttributeValues(tree)}

Marker(field) == <<"{", "{">> \o field \o <<"}", "}">>

InSerialized(tree, search_text) == \E piece \in Serialized(tree) : Contains(piece, search_text)

\* the test of the loop over the structured tags in Tier 1
UnfilledSdt(sdt, expected_fields) ==
    /\ sdt.alias \in Range(expected_fields)
    /\ sdt.content
    /\ sdt.ts # <<>>
    /\ Strip(sdt.ts[1], Whitespace) = <<>>

\* Tier1PlaceholderValidation.validate(doc, expected_fields)
Tier1_validate(tree, expected_fields) ==
    LET unfilled_placeholders ==
            SelectSeq(expected_fields, LAMBDA field : InSerialized(tree, Marker(field)))
        unfilled_sdts ==
            LET hit == SelectSeq(tree.sdts, LAMBDA sdt : UnfilledSdt(sdt, expected_fields))
            IN  [k \in 1..Len(hit) |-> hit[k].alias]
    IN  IF unfilled_placeholders = <<>> /\ unfilled_sdts = <<>>
        THEN add_pass(NewValidation, "Placeholder Completion",
                      <<"All expected fields filled", Len(expected_fields)>>)
        ELSE add_fail(NewValidation, "Placeholder Completion",
                      <<"Unfilled", [k \in 1..Len(unfilled_placeholders) |->
                                        <<"Text", unfilled_placeholders[k]>>]
                                    \o [k \in 1..Len(unfilled_sdts) |->
                                        <<"SDT", unfilled_sdts[k]>>]>>)

required_files == <<"word/document.xml", "[Content_Types].xml", "_rels/.rels">>

optional_files == <<"word/styles.xml", "word/fontTable.xml", "word/numbering.xml", "customXml/">>

RECURSIVE Tier2_required(_, _, _)
Tier2_required(v, e, i) ==
    IF i > Len(required_files) THEN v
    ELSE Tier2_required(
            IF required_files[i] \in e.files
            THEN add_pass(v, "File Check", <<"Found", required_files[i]>>)
            ELSE add_fail(v, "File Check", <<"Missing", required_files[i]>>),
            e, i + 1)

\* the optional-parts loop recording an absent part as a failure
RECURSIVE Tier2_optional_failing(_, _, _)
Tier2_optional_failing(v, e, i) ==
    IF i > Len(optional_files) THEN v
    ELSE Tier2_optional_failing(
            IF optional_files[i] \in e.files
            THEN add_pass(v, "Optional Files", <<"Found", optional_files[i]>>)
            ELSE add_fail(v, "Optional Files", <<"Missing", optional_files[i]>>),
            e, i + 1)

RECURSIVE Tier2_optional(_, _, _)
Tier2_optional(v, e, i) ==
    IF i > Len(optional_files) THEN v
    ELSE Tier2_optional(
            IF optional_files[i] \in e.files
            THEN add_pass(v, "Optional Files", <<"Found", optional_files[i]>>)
            ELSE add_warning(v, "Optional Files", <<"Missing", optional_files[i]>>),
            e, i + 1)

\* the try block that opens and reads word/document.xml
Tier2_readable(v, e) ==
    IF MainPart \notin e.files \/ ~e.readable
    THEN add_fail(v, "XML Format", <<"cannot read", MainPart>>)
    ELSE IF e.decl
    THEN add_pass(v, "XML Format", <<"document.xml is valid XML declaration">>)
    ELSE add_warning(v, "XML Format", <<"document.xml missing XML declaration">>)

\* Tier2DocumentIntegrityValidation.validate(unpacked_path)
Tier2_validate(e) ==
    LET v == Tier2_readable(Tier2_optional(Tier2_required(NewValidation, e, 1), e, 1), e)
        all_exist == \A i \in 1..Len(required_files) : required_files[i] \in e.files
    IN  IF all_exist
        THEN add_pass(v, "Document Integrity", <<"All required DOCX files present">>)
        ELSE v

\* Tier3XMLValidation.validate(doc): the save, and the classification of its error
Tier3_validate(e) ==
    IF ~SaveRaises(e)
    THEN add_pass(NewValidation, "XML Well-formedness", <<"Document XML is well-formed">>)
    ELSE IF e.save = "namespace"
    THEN add_fail(NewValidation, "XML Namespaces", <<"Namespace error">>)
    ELSE IF e.save = "element"
    THEN add_fail(NewValidation, "XML Elements", <<"Element error">>)
    ELSE add_fail(NewValidation, "XML Structure", <<"error">>)

\* the expected_fields argument: absent (None) or a list
NoFields == [given |-> FALSE, fields |-> <<>>]

Fields(list) == [given |-> TRUE, fields |-> list]

Truthy(expected_fields) == expected_fields.given /\ expected_fields.fields # <<>>

\* ComprehensiveValidator.validate_all(expected_fields).  loaded tells whether the
\* Document already holds the parsed main part; when it does not, Tier 1 parses it
\* and the call ends in that exception if the part cannot be parsed.
validate_all(tree, loaded, e, expected_fields) ==
    IF Truthy(expected_fields) /\ ~loaded /\ ~Loadable(e)
    THEN [raised |-> TRUE, all_valid |-> FALSE, results |-> <<>>]
    ELSE LET result1 == Tier1_validate(tree, expected_fields.fields)
             result2 == Tier2_validate(e)
             result3 == Tier3_validate(e)
             tier1 == IF Truthy(expected_fields)
                      THEN <<[tier |-> "Tier1-Placeholders", result |-> result1]>>
                      ELSE <<>>
             results == tier1 \o <<[tier |-> "Tier2-Integrity", result |-> result2],
                                   [tier |-> "Tier3-XML", result |-> result3]>>
         IN  [raised |-> FALSE,
              all_valid |-> \A k \in 1..Len(results) : Len(results[k].result.failed) = 0,
              results |-> results]

\* get_detailed_report(): one section per entry of self.results, in order, with
\* the entry's passed, warnings and failed lists
get_detailed_report(results) ==
    [k \in 1..Len(results) |->
        [tier |-> results[k].tier,
         passed |-> results[k].result.passed,
         warnings |-> results[k].result.warnings,
         failed |-> results[k].result.failed]]

---------------------------------------------------------------------------
(* fill_fields (docx_tools.py) *)

RECURSIVE AllFilled(_)
AllFilled(results) ==
    IF results = <<>> THEN <<>> ELSE Head(results).res.filled \o AllFilled(Tail(results))

RECURSIVE AllSkipped(_)
AllSkipped(results) ==
    IF results = <<>> THEN 0 ELSE Len(Head(results).res.skipped) + AllSkipped(Tail(results))

NoValidation == [raised |-> FALSE, all_valid |-> FALSE, results |-> <<>>]

\* fill_fields from the validation on (docx_tools.py 436-471): f is what the filler
\* returned, validation the outcome of validate_all on the saved document
fill_fields_validated(e, f, validation) ==
    [status |-> IF validation.all_valid THEN "success" ELSE "partial",
     keys |-> {"status", "filled", "skipped", "strategies_used", "summary",
               "validation_passed"},
     filled |-> Range(AllFilled(f.results)),
     skipped |-> AllSkipped(f.results),
     strategies_used |-> [k \in 1..Len(f.results) |-> f.results[k].strategy],
     validation_passed |-> validation.all_valid,
     tree |-> f.tree, env |-> Saved(e),
     strategy_results |-> f.results, validation |-> validation,
     logA |-> f.logA, logD |-> f.logD, afterA |-> f.afterA, beforeD |-> f.beforeD]

\* fill_fields that returns a filled result although the save raised
fill_fields_filled_unsaved(tree, e, field_mapping, f) ==
    IF ~Loadable(e)
    THEN [status |-> "failed", keys |-> {"status", "error", "summary"},
          filled |-> {}, skipped |-> 0, strategies_used |-> <<>>,
          validation_passed |-> FALSE,
          tree |-> tree, env |-> e,
          strategy_results |-> <<>>, validation |-> NoValidation,
          logA |-> <<>>, logD |-> <<>>, afterA |-> tree.paras, beforeD |-> tree.paras]
    ELSE fill_fields_validated(e, f,
            validate_all(f.tree, TRUE, Saved(e),
                         Fields([i \in 1..Len(field_mapping) |-> field_mapping[i][1]])))

\* fill_fields once the filler has returned f (docx_tools.py 425-479)
fill_fields_filled(tree, e, field_mapping, f) ==
    IF ~Loadable(e) \/ f.raised
    THEN [status |-> "failed", keys |-> {"status", "error", "summary"},
          filled |-> {}, skipped |-> 0, strategies_used |-> <<>>,
          validation_passed |-> FALSE,
          tree |-> tree, env |-> e,
          strategy_results |-> <<>>, validation |-> NoValidation,
          logA |-> <<>>, logD |-> <<>>, afterA |-> tree.paras, beforeD |-> tree.paras]
    ELSE fill_fields_validated(e, f,
            validate_all(f.tree, TRUE, Saved(e),
                         Fields([i \in 1..Len(field_mapping) |-> field_mapping[i][1]])))

\* The dict fill_fields returns, with the tree and the directory it leaves behind.
\* keys is the set of keys of the returned dict; strategy_results, validation, logA,
\* logD and afterA record what the call did on the way.
fill_fields(tree, e, field_mapping) ==
    fill_fields_filled(tree, e, field_mapping,
                       fill_with_all_strategies(tree, e, field_mapping))

---------------------------------------------------------------------------
(* insert_placeholders (docx_tools.py) *)

w_p == <<"w", ":", "p">>

w_r == <<"w", ":", "r">>

w_t == <<"w", ":", "t">>

Tag(name) == <<"<">> \o name \o <<">">>

EndTag(name) == <<"<", "/">> \o name \o <<">">>

EmptyTag(name) == <<"<">> \o name \o <<"/", ">">>

\* toxml() of an element with this start of tag and this content
ElementToXml(open, name, content) ==
    IF content = <<>> THEN <<"<">> \o open \o <<"/", ">">>
    ELSE <<"<">> \o open \o <<">">> \o content \o EndTag(name)

\* toxml() of a run: its w:id when it has one, its run-properties, its w:t children
\* with their character data escaped; a run not directly in the paragraph is
\* written inside the w:hyperlink that holds it
RunToXml(run) ==
    LET open == IF run.id = <<>> THEN w_r
                ELSE w_r \o <<" ", "w", ":", "i", "d", "=", "\"">> \o XmlEscape(run.id) \o <<"\"">>
        rpr == IF run.rpr = NoRPr THEN <<>>
               ELSE Tag(<<"w", ":", "r", "P", "r">>) \o EmptyTag(<<"w", ":", run.rpr>>)
                    \o EndTag(<<"w", ":", "r", "P", "r">>)
        texts == Join([k \in 1..Len(run.ts) |-> ElementToXml(w_t, w_t, XmlEscape(run.ts[k]))])
        xml == ElementToXml(open, w_r, rpr \o texts)
    IN  IF run.direct THEN xml
        ELSE ElementToXml(<<"w", ":", "h", "y", "p", "e", "r", "l", "i", "n", "k">>,
                          <<"w", ":", "h", "y", "p", "e", "r", "l", "i", "n", "k">>, xml)

\* para.toxml()
ParaToXml(para) ==
    ElementToXml(w_p, w_p,
                 (IF para.ppr THEN EmptyTag(<<"w", ":", "p", "P", "r">>) ELSE <<>>)
                 \o Join([j \in 1..Len(para.runs) |-> RunToXml(para.runs[j])]))

\* the paragraphs, numbered from 1 in document order, for which
\* `label in para.toxml()` holds
LabelParagraphs(paragraphs, label) ==
    {i \in 1..Len(paragraphs) : Contains(ParaToXml(paragraphs[i]), label)}

First(S) == CHOOSE i \in S : \A j \in S : i <= j

\* the w:r with one w:t holding the text, made with createElement; the attribute
\* xml:space="preserve" of the w:t has no place in the run record
placeholder_run(text) == [rpr |-> NoRPr, ts |-> <<text>>, id |-> <<>>, direct |-> TRUE]

\* para.appendChild(placeholder_run)
appendChild(paragraphs, i, run) == [paragraphs EXCEPT ![i].runs = Append(@, run)]

NewInsertion(paragraphs) == [paragraphs |-> paragraphs, inserted_fields |-> <<>>, failed_fields |-> <<>>]

\* the marker run is appended to the last run of the paragraph instead of to the
\* paragraph
insert_at_into_last_run(st, field_name, i, text) ==
    [st EXCEPT !.paragraphs[i].runs =
                    IF @ = <<>> THEN <<placeholder_run(text)>>
                    ELSE [@ EXCEPT ![Len(@)].ts = Append(@, text)],
               !.inserted_fields = Append(@, field_name)]

\* the marker run appended to paragraph i, and the field recorded as inserted
insert_at(st, field_name, i, text) ==
    [st EXCEPT !.paragraphs = appendChild(@, i, placeholder_run(text)),
               !.inserted_fields = Append(@, field_name)]

\* the body of the loop for one field once the paragraphs holding the label are
\* known: hits are those paragraphs, none when the label is empty
insert_field_found(st, field_name, location, hits) ==
    IF location = "below_label" /\ \E i \in hits : i < Len(st.paragraphs)
    THEN insert_at(st, field_name, First({i \in hits : i < Len(st.paragraphs)}) + 1,
                   Marker(field_name))
    ELSE IF hits # {}
    THEN insert_at(st, field_name, First(hits), <<" ">> \o Marker(field_name))
    ELSE [st EXCEPT !.failed_fields = Append(@, field_name)]

\* one turn of the loop over the fields; a field without a name is passed over
insert_field(st, field_info) ==
    IF field_info.field_name = <<>> THEN st
    ELSE insert_field_found(st, field_info.field_name, field_info.location,
                            IF field_info.label = <<>> THEN {}
                            ELSE LabelParagraphs(st.paragraphs, field_info.label))

RECURSIVE insert_loop(_, _)
insert_loop(st, fields) ==
    IF fields = <<>> THEN st ELSE insert_loop(insert_field(st, Head(fields)), Tail(fields))

\* what the outer except returns
insert_raised(tree, e) ==
    [status |-> "failed", keys |-> {"status", "inserted_count", "inserted_fields", "error", "summary"},
     inserted_count |-> 0, inserted_fields |-> <<>>, failed_fields |-> <<>>,
     tree |-> tree, env |-> e]

\* a status that is partial whenever a field failed
insert_status_partial(inserted_fields, failed_fields) ==
    IF Len(failed_fields) = 0 THEN "success" ELSE "partial"

insert_status(inserted_fields, failed_fields) ==
    IF Len(failed_fields) = 0 THEN "success"
    ELSE IF Len(inserted_fields) > 0 THEN "partial" ELSE "failed"

\* the save and the result, st being the state the loop over the fields ended in
insert_saved(tree, e, st) ==
    IF SaveRaises(e) THEN insert_raised(tree, e)
    ELSE [status |-> insert_status(st.inserted_fields, st.failed_fields),
          keys |-> {"status", "inserted_count", "inserted_fields", "failed_fields", "summary"},
          inserted_count |-> Len(st.inserted_fields),
          inserted_fields |-> st.inserted_fields, failed_fields |-> st.failed_fields,
          tree |-> [tree EXCEPT !.paras = st.paragraphs], env |-> Saved(e)]

\* insert_placeholders(unpacked_dir, {'fields': fields}) without a debug directory:
\* the dict it returns (keys is the set of its keys; failed_fields is <<>> when the
\* dict has no such key), with the tree and the directory it leaves behind
insert_placeholders(tree, e, fields) ==
    IF ~Loadable(e) THEN insert_raised(tree, e)
    ELSE IF fields = <<>>
    THEN [status |-> "failed", keys |-> {"status", "inserted_count", "inserted_fields", "summary"},
          inserted_count |-> 0, inserted_fields |-> <<>>, failed_fields |-> <<>>,
          tree |-> tree, env |-> e]
    ELSE insert_saved(tree, e, insert_loop(NewInsertion(tree.paras), fields))

---------------------------------------------------------------------------
(* SessionAwareDocxTools (docx_session_tools.py): one session's workspace *)

\* the files of the session's input directory with the package each holds, a template
\* and two source documents
InputFiles ==
    [name \in {"template.docx", "data1.docx", "data2.docx"} |->
        CASE name = "template.docx" -> "T" [] name = "data1.docx" -> "S1" [] OTHER -> "S2"]

\* Path(filename).stem
Stem(filename) ==
    CASE filename = "template.docx" -> "template"
      [] filename = "data1.docx" -> "data1"
      [] filename = "data2.docx" -> "data2"
      [] OTHER -> filename

\* the subdirectories of the session's unpacked directory, each with the package it
\* was unpacked from and the edits made in it since
NoSubdirs == [d \in {} |-> 0]

\* unpack_docx(docx_path, output_dir): the directory holds the parts of the package
unpack_docx(unpacked, filename, subdir) ==
    [d \in DOMAIN unpacked \cup {subdir} |->
        IF d = subdir THEN [package |-> InputFiles[filename], edits |-> {}] ELSE unpacked[d]]

\* subdirs[0] of `[d for d in unpacked_dir.iterdir() if d.is_dir()]`: iterdir yields
\* the entries in arbitrary order, so any subdirectory can be the first
FirstSubdirs(unpacked) == DOMAIN unpacked

---------------------------------------------------------------------------
(* merge_data_sources (extraction_module.py) *)

LowerCase == <<"a", "b", "c", "d", "e", "f", "g", "h", "i", "j", "k", "l", "m",
               "n", "o", "p", "q", "r", "s", "t", "u", "v", "w", "x", "y", "z">>

UpperCase == <<"A", "B", "C", "D", "E", "F", "G", "H", "I", "J", "K", "L", "M",
               "N", "O", "P", "Q", "R", "S", "T", "U", "V", "W", "X", "Y", "Z">>

\* header.upper().replace(' ', '_'), one character
NormalizeChar(c) ==
    IF c = " " THEN "_"
    ELSE IF \E i \in 1..26 : LowerCase[i] = c
    THEN UpperCase[CHOOSE i \in 1..26 : LowerCase[i] = c]
    ELSE c

NormalizeHeader(header) == [i \in 1..Len(header) |-> NormalizeChar(header[i])]

DATE == <<"D", "A", "T", "E">>

AMOUNT == <<"A", "M", "O", "U", "N", "T">>

INVOICE_NUMBER == <<"I", "N", "V", "O", "I", "C", "E", "_", "N", "U", "M", "B", "E", "R">>

\* re.findall(pattern, text)[0]: the text is the sequence of its lexemes, each
\* with the pattern it matches ("date", "currency", "invoice" or "other") and the
\* string findall returns for it; the first match is the first lexeme of the kind
FirstMatch(text, kind) ==
    LET hits == {i \in 1..Len(text) : text[i].kind = kind}
    IN  text[CHOOSE i \in hits : \A j \in hits : i <= j].match

HasMatch(text, kind) == \E i \in 1..Len(text) : text[i].kind = kind

extract_common_fields_from_text(text) ==
    LET keys == (IF HasMatch(text, "date") THEN {DATE} ELSE {})
                \cup (IF HasMatch(text, "currency") THEN {AMOUNT} ELSE {})
                \cup (IF HasMatch(text, "invoice") THEN {INVOICE_NUMBER} ELSE {})
    IN  [k \in keys |-> IF k = DATE THEN FirstMatch(text, "date")
                        ELSE IF k = AMOUNT THEN FirstMatch(text, "currency")
                        ELSE FirstMatch(text, "invoice")]

\* a later column with the same normalised header overwrites an earlier one
extract_fields_from_tables(tables) ==
    IF tables = <<>> THEN <<>>
    ELSE IF Len(tables[1]) < 2 THEN <<>>
    ELSE LET headers == tables[1][1]
             first_row == tables[1][2]
             cols == {i \in 1..Len(headers) : i <= Len(first_row)}
         IN  [k \in {NormalizeHeader(headers[i]) : i \in cols} |->
                first_row[CHOOSE i \in cols :
                            /\ NormalizeHeader(headers[i]) = k
                            /\ \A j \in cols : NormalizeHeader(headers[j]) = k => j <= i]]

\* d.update of the keys d does not hold yet
AddMissing(d, more) ==
    [k \in DOMAIN d \cup DOMAIN more |-> IF k \in DOMAIN d THEN d[k] ELSE more[k]]

\* the merge with table-derived values taking priority over text-derived ones
merge_data_sources_tables_first(text_data, table_data, sdt_data) ==
    LET text_based_fields == extract_common_fields_from_text(text_data)
        table_based_fields == extract_fields_from_tables(table_data)
    IN  [text |-> text_data, tables |-> table_data, sdt_fields |-> sdt_data,
         extracted_values |->
            AddMissing(AddMissing(sdt_data, table_based_fields), text_based_fields)]

merge_data_sources(text_data, table_data, sdt_data) ==
    LET text_based_fields == extract_common_fields_from_text(text_data)
        table_based_fields == extract_fields_from_tables(table_data)
    IN  [text |-> text_data, tables |-> table_data, sdt_fields |-> sdt_data,
         extracted_values |->
            AddMissing(AddMissing(sdt_data, text_based_fields), table_based_fields)]

---------------------------------------------------------------------------
(* the documents, mappings and directories the operations are run on *)

\* the largest number of runs a paragraph text is divided into
MaxRuns == 2

\* the largest number of records given to fill_table
MaxRecords == 2

PM == <<"P", "M">>

SALARY == <<"S", "A", "L", "A", "R", "Y">>

CLIENT == <<"C", "L", "I", "E", "N", "T">>

field_x == <<"f", "i", "e", "l", "d", "_", "x">>

field_y == <<"f", "i", "e", "l", "d", "_", "y">>

Label == <<"P", "r", "o", "j", "e", "c", "t", " ", "M", "a", "n", "a", "g", "e", "r", ":", " ">>

JohnSmith == <<"J", "o", "h", "n", " ", "S", "m", "i", "t", "h">>

Acme == <<"A", "c", "m", "e">>

Unsafe == <<"a", "<", "b">>

\* every division of s into at most n non-empty pieces
RECURSIVE Splits(_, _)
Splits(s, n) ==
    {<<s>>} \cup
    (IF n <= 1 THEN {}
     ELSE UNION {{<<SubSeq(s, 1, i)>> \o rest : rest \in Splits(SubSeq(s, i + 1, Len(s)), n - 1)}
                 : i \in 1..(Len(s) - 1)})


Run(rpr, text) == [rpr |-> rpr, ts |-> <<text>>, id |-> <<>>, direct |-> TRUE]

\* the runs of a paragraph whose text is divided into pieces; when styled, the odd
\* runs are bold and the even ones italic
Runs(pieces, styled) ==
    [j \in 1..Len(pieces) |->
        Run(IF ~styled THEN NoRPr ELSE IF j % 2 = 1 THEN "b" ELSE "i", pieces[j])]

Para(ppr, runs) == [ppr |-> ppr, runs |-> runs]

Tree(paras, sdts, tables) == [paras |-> paras, sdts |-> sdts, tables |-> tables]

Sdt(alias, content, ts) == [alias |-> alias, content |-> content, ts |-> ts]

\* `Project Manager: {{PM}}`, however divided into runs
PMDocs ==
    {Tree(<<Para(styled, Runs(pieces, styled))>>, <<>>, <<>>) :
        pieces \in Splits(Label \o Marker(PM), MaxRuns), styled \in BOOLEAN}

\* a template that also holds {{SALARY}}, whole or split
SalaryDocs ==
    {Tree(<<Para(FALSE, <<Run(NoRPr, Label), Run("b", Marker(PM))>>),
            Para(FALSE, Runs(pieces, FALSE))>>, <<>>, <<>>) :
        pieces \in {<<Marker(SALARY)>>, <<<<"{", "{", "S", "A", "L">>, <<"A", "R", "Y", "}", "}">>>>}}

\* the marker {{CLIENT}} split into the runs `{{CLI` and `ENT}}`
ClientParas ==
    {Para(ppr, Runs(<<<<"{", "{", "C", "L", "I">>, <<"E", "N", "T", "}", "}">>>>, styled)) : ppr \in BOOLEAN, styled \in BOOLEAN}

ClientDocs ==
    {Tree(<<para>> \o extra, <<>>, <<>>) :
        para \in ClientParas, extra \in {<<>>, <<Para(FALSE, <<Run("i", Label)>>)>>}}

\* two runs holding markers of PM in two of the four formats, in one paragraph
\* or in two
FormatDocs ==
    LET fmt == try_placeholder_formats(PM)
        first(i) == Run("b", Label \o fmt[i])
        second(j) == Run("i", fmt[j] \o Label)
    IN  {Tree(<<Para(TRUE, <<first(i), second(j)>>)>>, <<>>, <<>>) : i \in 1..4, j \in 1..4}
        \cup {Tree(<<Para(FALSE, <<first(i)>>), Para(FALSE, <<second(j)>>)>>, <<>>, <<>>) :
                i \in 1..4, j \in 1..4}

\* markers of two mapping keys split over the runs of one paragraph; a run nested
\* in a hyperlink, holding the end of a marker or a second marker of a key
SplitDocs ==
    {Tree(<<Para(ppr, Runs(<<<<"{", "{", "P">>, <<"M", "}", "}", " ", "{", "{", "C", "L", "I">>, <<"E", "N", "T", "}", "}">>>>, TRUE))>>, <<>>, <<>>) : ppr \in BOOLEAN}
    \cup {Tree(<<Para(FALSE, <<Run("b", Marker(PM))>>),
                 Para(TRUE, <<Run("i", <<"{", "{", "C", "L", "I">>), Run(NoRPr, <<"E", "N", "T", "}", "}">>)>>)>>, <<>>, <<>>)}
    \cup {Tree(<<Para(ppr, <<Run("b", <<"{", "{", "C", "L", "I">>),
                            [Run("i", <<"E", "N", "T", "}", "}">>) EXCEPT !.direct = FALSE]>>)>>, <<>>, <<>>) :
            ppr \in BOOLEAN}
    \cup {Tree(<<Para(ppr, <<Run("b", Marker(PM)),
                            [Run("i", Label \o Marker(PM)) EXCEPT !.direct = FALSE]>>)>>, <<>>, <<>>) :
            ppr \in BOOLEAN}

SdtContents == {<<FALSE, <<>>>>, <<TRUE, <<>>>>, <<TRUE, << <<>> >>>>, <<TRUE, << <<" ">> >>>>,
                <<TRUE, <<<<"o", "l", "d">>>>>>, <<TRUE, <<<<"o", "l", "d">>, <<"m", "o", "r", "e">>>>>>}

\* structured tags with the alias PM, and runs carrying the w:id field_x
SdtDocs ==
    {Tree(<<Para(FALSE, <<Run(NoRPr, Label)>>)>>,
          <<Sdt(PM, c[1], c[2]), Sdt(SALARY, TRUE, <<<<"p", "a", "i", "d">>>>)>>, <<>>) : c \in SdtContents}
    \cup {Tree(<<Para(FALSE, <<Run("b", Marker(PM))>>)>>, <<Sdt(PM, TRUE, <<<<"o", "l", "d">>>>)>>, <<>>)}

IdDocs ==
    {Tree(<<Para(FALSE, <<Run(NoRPr, Label), [Run("b", <<>>) EXCEPT !.id = field_x, !.ts = ts]>>)>>,
          <<>>, <<>>) : ts \in {<<>>, << <<>> >>, <<<<"o", "l", "d">>>>}}

Item == <<"I", "t", "e", "m">>

Price == <<"P", "r", "i", "c", "e">>

Widget == <<"W", "i", "d", "g", "e", "t">>

Gadget == <<"G", "a", "d", "g", "e", "t">>

Ten == <<"$", "1", "0">>

Five == <<"$", "5">>

\* the cells of a template row: no text node, a childless text node, a blank or a
\* filled text node
TemplateCells == {<<>>, << <<>> >>, << <<" ">> >>, <<<<"t", "p", "l">>>>}

HeaderRows == {<< <<Item>>, <<Price>> >>, << <<<<" ">> \o Item>>, <<<<"P", "r", "i">>, <<"c", "e", " ">>>> >>}

TableDocs ==
    {Tree(<<>>, <<>>, << <<header, <<cell, cell>>>> \o extra >>) :
        header \in HeaderRows, cell \in TemplateCells,
        extra \in {<<>>, << << <<Gadget>>, <<Five>> >> >>}}
    \cup {Tree(<<>>, <<>>, << << << <<Item>>, <<Price>> >> >> >>)}

Templates ==
    PMDocs \cup SalaryDocs \cup ClientDocs \cup FormatDocs \cup SplitDocs
    \cup SdtDocs \cup IdDocs \cup TableDocs

AllParts == Range(required_files) \cup Range(optional_files)

GoodEnv == [files |-> AllParts, readable |-> TRUE, decl |-> TRUE, save |-> "ok"]

\* the directories fill_fields and fill_table are run in
FillEnvs ==
    {GoodEnv,
     [GoodEnv EXCEPT !.decl = FALSE, !.files = Range(required_files)],
     [GoodEnv EXCEPT !.save = "other"],
     [GoodEnv EXCEPT !.files = AllParts \ {MainPart}],
     [GoodEnv EXCEPT !.files = AllParts \ {"_rels/.rels"}]}

Mappings ==
    {<<>>,
     << <<PM, JohnSmith>> >>,
     << <<CLIENT, Acme>> >>,
     << <<PM, JohnSmith>>, <<CLIENT, Acme>> >>,
     << <<field_x, Acme>>, <<PM, JohnSmith>> >>,
     << <<PM, Unsafe>> >>,
     << <<PM, Unsafe>>, <<CLIENT, Acme>> >>,
     << <<field_x, Acme>>, <<field_y, Acme>> >>,
     << <<Marker(PM), Acme>> >>}

Records ==
    {[k \in {Item, Price} |-> IF k = Item THEN Widget ELSE Ten],
     [k \in {Item, Price} |-> IF k = Item THEN Gadget ELSE Five],
     [k \in {Item} |-> Gadget]}

RECURSIVE SeqsUpTo(_, _)
SeqsUpTo(S, n) ==
    IF n = 0 THEN {<<>>}
    ELSE SeqsUpTo(S, n - 1) \cup {Append(q, x) : q \in {r \in SeqsUpTo(S, n - 1) : Len(r) = n - 1}, x \in S}

RecordLists == SeqsUpTo(Records, MaxRecords)


FileSets ==
    {AllParts, Range(required_files), AllParts \ {"word/styles.xml", "customXml/"}}
    \cup {AllParts \ {f} : f \in Range(required_files)}

\* the directories validate_all is run in
Envs ==
    [files : FileSets, readable : BOOLEAN, decl : BOOLEAN,
     save : {"ok", "namespace", "element", "other"}]

ValidateDocs ==
    {Tree(<<Para(FALSE, <<Run(NoRPr, Label \o Marker(PM))>>)>>, <<>>, <<>>),
     Tree(<<Para(FALSE, <<Run(NoRPr, Label \o JohnSmith)>>)>>, <<Sdt(PM, TRUE, << <<" ">> >>)>>, <<>>),
     Tree(<<Para(FALSE, <<Run(NoRPr, Label \o JohnSmith)>>)>>, <<>>, <<>>)}

ExpectedFields == {NoFields, Fields(<<>>), Fields(<<PM>>), Fields(<<SALARY, PM>>)}

Lexemes ==
    {[kind |-> "date", match |-> "11/18/2025"], [kind |-> "date", match |-> "May 5, 2024"],
     [kind |-> "currency", match |-> "$50,000"], [kind |-> "invoice", match |-> "12345"],
     [kind |-> "other", match |-> ""]}

\* the largest number of lexemes in the text given to merge_data_sources
MaxLexemes == 2

TextInputs == SeqsUpTo(Lexemes, MaxLexemes)

TableInputs ==
    {<<>>,
     << << <<<<"D", "a", "t", "e">>, <<"A", "m", "o", "u", "n", "t">>>> >> >>,
     << << <<<<"D", "a", "t", "e">>, <<"a", "m", "o", "u", "n", "t">>>>, <<"t-date", "t-amount">> >> >>,
     << << <<<<"I", "n", "v", "o", "i", "c", "e", " ", "N", "u", "m", "b", "e", "r">>, <<"C", "l", "i", "e", "n", "t">>, <<"c", "l", "i", "e", "n", "t">>>>, <<"t-inv", "t-client", "t-client2">> >>,
        << <<<<"d", "a", "t", "e">>>>, <<"t2-date">> >> >>,
     << << <<<<"d", "a", "t", "e">>, <<"p", "m">>>>, <<"t-date">>, <<"t-date3", "t-pm3">> >> >>}

SdtInputs ==
    {<<>>,
     [k \in {DATE} |-> "s-date"],
     [k \in {AMOUNT, CLIENT} |-> IF k = AMOUNT THEN "s-amount" ELSE "s-client"],
     [k \in {INVOICE_NUMBER, PM} |-> IF k = PM THEN "s-pm" ELSE "s-inv"]}

---------------------------------------------------------------------------
(* the operations *)

\* the dicts {condition_name: boolean} StrategyF.fill is called with
MaxConditions == 3

ConditionNames == {"SHOW_TERMS", "SHOW_BONUS", "SHOW_NDA"}

\* the dicts with at most n items, as item lists in insertion order
RECURSIVE Dicts(_, _, _)
Dicts(keys, values, n) ==
    IF n = 0 THEN {<<>>}
    ELSE Dicts(keys, values, n - 1) \cup
         UNION {{Append(d, <<k, v>>) : k \in keys \ {d[i][1] : i \in 1..Len(d)}, v \in values}
                : d \in {x \in Dicts(keys, values, n - 1) : Len(x) = n - 1}}

Conditions == Dicts(ConditionNames, BOOLEAN, MaxConditions)

\* the largest number of fields in a field analysis
MaxFields == 2

ManagerLabel == <<"M", "a", "n", "a", "g", "e", "r", ":">>

ClientLabel == <<"C", "l", "i", "e", "n", "t", ":">>

RnD == <<"R", "&", "D", ":">>

\* templates without markers: the label `Project Manager: ` in one run or divided
\* between two, before an empty paragraph or in the last paragraph, in one paragraph
\* or in two; a label with an ampersand; a document without paragraphs
InsertDocs ==
    {Tree(paras, <<>>, <<>>) :
        paras \in {<<Para(FALSE, <<Run("b", Label)>>), Para(FALSE, <<>>)>>,
                   <<Para(TRUE, Runs(<<SubSeq(Label, 1, 8), SubSeq(Label, 9, 17)>>, TRUE))>>,
                   <<Para(FALSE, Runs(<<SubSeq(Label, 1, 11), SubSeq(Label, 12, 17)>>, FALSE)),
                     Para(TRUE, <<>>)>>,
                   <<Para(FALSE, <<Run(NoRPr, ClientLabel)>>), Para(FALSE, <<Run(NoRPr, Label)>>),
                     Para(FALSE, <<Run("i", Label)>>)>>,
                   <<Para(FALSE, <<Run(NoRPr, RnD)>>), Para(FALSE, <<>>)>>,
                   <<>>}}

field_info(field_name, label, location) ==
    [field_name |-> field_name, label |-> label, location |-> location]

\* the entries of field_analysis['fields']: a label of the text, a label that is
\* markup, no label, no name
FieldInfos ==
    {field_info(PM, ManagerLabel, "below_label"), field_info(PM, ManagerLabel, "inline"),
     field_info(CLIENT, ClientLabel, "below_label"), field_info(CLIENT, RnD, "below_label"),
     field_info(PM, w_t, "inline"), field_info(PM, <<>>, "below_label"),
     field_info(<<>>, ManagerLabel, "below_label"), field_info(SALARY, Label, "below_label")}

FieldLists == SeqsUpTo(FieldInfos, MaxFields)

NoRet == [op |-> "none"]

\* fill_fields(unpacked_dir, field_mapping)
FillFields ==
    \E field_mapping \in Mappings :
        /\ ret' = [op |-> "fill_fields", mapping |-> field_mapping, pre |-> doc, dir |-> env,
                   out |-> fill_fields(doc, env, field_mapping)]
        /\ doc' = ret'.out.tree
        /\ env' = ret'.out.env

\* MultiStrategyFiller(Document(unpacked_dir)).fill_table(table_index, table_data);
\* the call ends in an exception when the main part cannot be parsed or the save raises
FillTable ==
    \E table_index \in 0..1, table_data \in RecordLists :
        LET out == fill_table(doc, env, table_index, table_data)
            raised == ~Loadable(env) \/ out.raised
        IN  /\ doc' = IF raised THEN doc ELSE out.tree
            /\ env' = IF raised THEN env ELSE Saved(env)
            /\ ret' = [op |-> "fill_table", table_index |-> table_index,
                       table_data |-> table_data, pre |-> doc, raised |-> raised,
                       res |-> IF Loadable(env) THEN out.res ELSE NewResult]

\* ComprehensiveValidator(Document(unpacked_dir), unpacked_dir).validate_all(expected_fields),
\* then get_detailed_report()
ValidateAll ==
    \E expected_fields \in ExpectedFields :
        LET out == validate_all(doc, FALSE, env, expected_fields)
        IN  /\ doc' = doc
            /\ env' = IF ~out.raised /\ Loadable(env) /\ ~SaveRaises(env) THEN Saved(env) ELSE env
            /\ ret' = [op |-> "validate_all", expected_fields |-> expected_fields,
                       pre |-> env, out |-> out,
                       report |-> get_detailed_report(out.results)]

\* comprehensive_data_extraction: the three extractions have returned (ret holds
\* their results) and merge_data_sources(text, tables, sdt_fields) is applied
MergeDataSources ==
    /\ ret.op = "extracted"
    /\ ret' = [op |-> "merge_data_sources", text_data |-> ret.text_data,
               table_data |-> ret.table_data, sdt_data |-> ret.sdt_data,
               out |-> merge_data_sources(ret.text_data, ret.table_data, ret.sdt_data)]
    /\ UNCHANGED <<doc, env>>

\* StrategyF.fill(doc, conditions) on a loaded document
StrategyF ==
    \E conditions \in Conditions :
        /\ ret' = [op |-> "StrategyF.fill", conditions |-> conditions, pre |-> doc,
                   res |-> StrategyF_fill(doc, conditions).res]
        /\ doc' = StrategyF_fill(doc, conditions).tree
        /\ env' = env

\* the templates Tier 1 is run on by itself: those of the filler, those of the
\* validator, and a structured tag whose first w:t is blank and whose second is not
Tier1Docs ==
    Templates \cup ValidateDocs
    \cup {Tree(<<Para(FALSE, <<Run(NoRPr, Label)>>)>>,
               <<Sdt(PM, TRUE, <<<<" ">>, <<"m", "o", "r", "e">>>>)>>, <<>>)}

Tier1Lists == {<<>>, <<PM>>, <<SALARY, PM>>, <<CLIENT>>}

\* Tier1PlaceholderValidation.validate(doc, expected_fields) on a loaded document
Tier1Validate ==
    \E expected_fields \in Tier1Lists :
        /\ ret' = [op |-> "Tier1.validate", expected_fields |-> expected_fields,
                   result |-> Tier1_validate(doc, expected_fields)]
        /\ UNCHANGED <<doc, env>>

\* SessionAwareDocxTools.unpack_template(filename)
UnpackTemplate ==
    \E filename \in DOMAIN InputFiles \cup {"missing.docx"} :
        /\ env' = IF filename \in DOMAIN InputFiles
                  THEN [env EXCEPT !.unpacked = unpack_docx(@, filename, Stem(filename))]
                  ELSE env
        /\ ret' = [op |-> "unpack_template", filename |-> filename, before |-> env.unpacked,
                   found |-> filename \in DOMAIN InputFiles]
        /\ doc' = doc

\* SessionAwareDocxTools.extract_all_data(source_filename): data is the package whose
\* unpacked parts docx_tools.extract_all_data read
ExtractAllData ==
    \E source_filename \in DOMAIN InputFiles \cup {"missing.docx"} :
        /\ env' = IF source_filename \in DOMAIN InputFiles /\ "source" \notin DOMAIN env.unpacked
                  THEN [env EXCEPT !.unpacked = unpack_docx(@, source_filename, "source")]
                  ELSE env
        /\ ret' = [op |-> "extract_all_data", filename |-> source_filename,
                   before |-> env.unpacked,
                   found |-> source_filename \in DOMAIN InputFiles,
                   data |-> IF source_filename \in DOMAIN InputFiles
                            THEN env'.unpacked["source"].package ELSE "none"]
        /\ doc' = doc

\* SessionAwareDocxTools.fill_fields, insert_placeholders and pack_template: the call
\* of the core tool on subdirs[0]
SessionTool ==
    \E tool \in {"fill_fields", "insert_placeholders", "pack_template"} :
        \/ /\ env.unpacked = NoSubdirs
           /\ ret' = [op |-> tool, before |-> env.unpacked, found |-> FALSE]
           /\ UNCHANGED <<doc, env>>
        \/ \E target_dir \in FirstSubdirs(env.unpacked) :
                /\ ret' = [op |-> tool, before |-> env.unpacked, found |-> TRUE,
                           target |-> target_dir]
                /\ env' = IF tool = "pack_template" THEN env
                          ELSE [env EXCEPT !.unpacked[target_dir].edits = @ \cup {tool}]
                /\ doc' = doc

\* insert_placeholders(unpacked_dir, {'fields': fields}), run once on a template
\* that holds no marker yet
InsertPlaceholders ==
    \E fields \in FieldLists :
        /\ ret = NoRet
        /\ ret' = [op |-> "insert_placeholders", fields |-> fields, pre |-> doc, dir |-> env,
                   out |-> insert_placeholders(doc, env, fields)]
        /\ doc' = ret'.out.tree
        /\ env' = ret'.out.env

\* fill_fields(unpacked_dir, field_mapping) on the template insert_placeholders has
\* just written; inserted keeps what that call was given and returned
FillAfterInsert ==
    \E field_mapping \in Mappings :
        /\ ret.op = "insert_placeholders"
        /\ ret' = [op |-> "fill_fields", mapping |-> field_mapping, pre |-> doc, dir |-> env,
                   out |-> fill_fields(doc, env, field_mapping), inserted |-> ret]
        /\ doc' = ret'.out.tree
        /\ env' = ret'.out.env

\* The directories other than GoodEnv are tried on one template of each kind.
FailingDocs ==
    {Tree(<<Para(FALSE, <<Run("b", Label), Run(NoRPr, Marker(PM))>>)>>,
          <<Sdt(PM, TRUE, <<<<"o", "l", "d">>>>)>>,
          << << << <<Item>>, <<Price>> >>, << <<<<"t", "p", "l">>>>, <<<<"t", "p", "l">>>> >> >> >>)}

Init ==
    /\ \/ doc \in Templates /\ env = GoodEnv
       \/ doc \in FailingDocs /\ env \in FillEnvs
    /\ ret = NoRet

Next == FillFields

Spec == Init /\ [][Next]_vars

InitTable ==
    /\ \/ doc \in TableDocs \cup SdtDocs /\ env = GoodEnv
       \/ doc \in FailingDocs /\ env \in FillEnvs
    /\ ret = NoRet

NextTable == FillTable

SpecTable == InitTable /\ [][NextTable]_vars

InitValidate == doc \in ValidateDocs /\ env \in Envs /\ ret = NoRet

NextValidate == ValidateAll

SpecValidate == InitValidate /\ [][NextValidate]_vars

InitConditional == doc \in ValidateDocs \cup FailingDocs /\ env = GoodEnv /\ ret = NoRet

NextConditional == StrategyF

SpecConditional == InitConditional /\ [][NextConditional]_vars

\* templates in which the fill of one field raises and the fill of another does
\* not: a value that is not text for one marker, a structured tag and a run with an
\* id whose w:t has no child, a template row with such a cell
ErrorDocs ==
    {Tree(paras,
          <<Sdt(PM, TRUE, << <<>> >>), Sdt(CLIENT, TRUE, <<<<"o", "l", "d">>>>)>>,
          << << << <<Item>>, <<Price>> >>, << <<<<"t", "p", "l">>>>, << <<>> >> >> >> >>) :
        paras \in {<<Para(FALSE, <<Run("b", Marker(PM))>>), Para(TRUE, <<Run("i", Marker(CLIENT))>>)>>,
                   <<Para(FALSE, Runs(<<<<"{", "{", "P">>, <<"M", "}", "}">>>>, TRUE)),
                     Para(TRUE, Runs(<<<<"{", "{", "C", "L", "I">>, <<"E", "N", "T", "}", "}">>>>, TRUE))>>,
                   <<Para(FALSE, <<[Run("b", <<>>) EXCEPT !.id = field_x, !.ts = << <<>> >>],
                                   Run(NoRPr, Marker(PM))>>)>>,
                   <<Para(FALSE, <<[Run("b", <<>>) EXCEPT !.id = field_y],
                                   Run(NoRPr, Marker(CLIENT))>>)>>}}

InitErrors == doc \in ErrorDocs /\ env = GoodEnv /\ ret = NoRet

NextErrors == FillFields \/ FillTable

SpecErrors == InitErrors /\ [][NextErrors]_vars

InitInsert ==
    /\ \/ doc \in InsertDocs /\ env = GoodEnv
       \/ doc \in FailingDocs /\ env \in FillEnvs
    /\ ret = NoRet

NextInsert == InsertPlaceholders

SpecInsert == InitInsert /\ [][NextInsert]_vars

InitTier1 == doc \in Tier1Docs /\ env = GoodEnv /\ ret = NoRet

NextTier1 == Tier1Validate

SpecTier1 == InitTier1 /\ [][NextTier1]_vars

InitSession ==
    /\ doc = Tree(<<>>, <<>>, <<>>)
    /\ env = [unpacked |-> NoSubdirs]
    /\ ret = NoRet

NextSession == UnpackTemplate \/ ExtractAllData \/ SessionTool

SpecSession == InitSession /\ [][NextSession]_vars

NextInsertFill == InsertPlaceholders \/ FillAfterInsert

SpecInsertFill == InitInsert /\ [][NextInsertFill]_vars

(***************************************************************************)
(* SessionWorkspaceManager: the directories of the sessions.  A path is    *)
(* the sequence of its components, a component a sequence of characters.   *)
(***************************************************************************)
workspaces == <<"w", "o", "r", "k", "s", "p", "a", "c", "e", "s">>

input == <<"i", "n", "p", "u", "t">>

unpacked == <<"u", "n", "p", "a", "c", "k", "e", "d">>

output == <<"o", "u", "t", "p", "u", "t">>

template_docx == <<"t", "e", "m", "p", "l", "a", "t", "e", ".", "d", "o", "c", "x">>

template == <<"t", "e", "m", "p", "l", "a", "t", "e">>

document_xml == <<"w", "o", "r", "d", "/", "d", "o", "c", "u", "m", "e", "n", "t", ".", "x", "m", "l">>

template_filled_docx == template \o <<"_", "f", "i", "l", "l", "e", "d", ".", "d", "o", "c", "x">>

\* the directory the process runs in, from the root of the file system
Cwd == << <<"a", "p", "p">> >>

\* the session ids the tools are constructed with: one path component, several
\* components, "." and ".." components, a trailing slash, an absolute path
SessionIds ==
    {<<"s", "1">>, <<"s", "2">>, <<"s", "1", "-", "2">>,
     <<"s", "1", "/", "s", "2">>, <<".", "/", "s", "1">>, <<"s", "1", "/">>,
     <<"s", "1", "/", ".", ".">>, <<".", ".">>, <<"/", "s", "1">>}

\* the ids of one path component, as in ^[\w\-]+$
PlainIds == {id \in SessionIds : \A i \in 1..Len(id) : id[i] \notin {"/", "."}}

\* pathlib: the components of a path string; empty components and "." are dropped
Component(cur) == IF cur \in {<<>>, <<".">>} THEN <<>> ELSE <<cur>>

RECURSIVE PathParts(_, _)
PathParts(s, cur) ==
    IF s = <<>> THEN Component(cur)
    ELSE IF Head(s) = "/" THEN Component(cur) \o PathParts(Tail(s), <<>>)
    ELSE PathParts(Tail(s), Append(cur, Head(s)))

\* Path(s)
Path(s) == [abs |-> s # <<>> /\ Head(s) = "/", parts |-> PathParts(s, <<>>)]

\* path / s: an absolute s replaces the path
Div(path, s) ==
    IF Path(s).abs THEN Path(s)
    ELSE [abs |-> path.abs, parts |-> path.parts \o Path(s).parts]

\* the file system: the place a path names, from the root, ".." one level up
RECURSIVE Walk(_, _)
Walk(at, parts) ==
    IF parts = <<>> THEN at
    ELSE IF Head(parts) = <<".", ".">>
         THEN Walk(IF at = <<>> THEN at ELSE SubSeq(at, 1, Len(at) - 1), Tail(parts))
    ELSE Walk(Append(at, Head(parts)), Tail(parts))

Resolve(path) == Walk(IF path.abs THEN <<>> ELSE Cwd, path.parts)

base_dir == Path(workspaces)

get_session_dir(session_id) == Div(base_dir, session_id)

get_input_dir(session_id) == Div(get_session_dir(session_id), input)

get_unpacked_dir(session_id) == Div(get_session_dir(session_id), unpacked)

get_output_dir(session_id) == Div(get_session_dir(session_id), output)

\* the files on disk, each with the session that wrote it last
Exists(files, path) == \E f \in files : f.path = Resolve(path)

WriteFile(files, path, session) ==
    {f \in files : f.path # Resolve(path)} \cup {[path |-> Resolve(path), by |-> session]}

\* shutil.rmtree(session_dir): the files below the directory
Below(files, dir) == {f \in files : StartsWith(f.path, Resolve(dir))}

Sessions == {1, 2}

Written(op, session, path) ==
    [op |-> op, session |-> session, before |-> env.files, written |-> {Resolve(path)},
     deleted |-> {}]

\* an uploaded template is in the input directory of the session
PlaceInput ==
    \E session \in Sessions :
        LET docx_path == Div(get_input_dir(env.ids[session]), template_docx) IN
            /\ ret' = Written("upload", session, docx_path)
            /\ env' = [env EXCEPT !.files = WriteFile(@, docx_path, session)]
            /\ UNCHANGED doc

\* SessionAwareDocxTools.unpack_template("template.docx")
UnpackInSession ==
    \E session \in Sessions :
        LET docx_path == Div(get_input_dir(env.ids[session]), template_docx)
            output_subdir == Div(get_unpacked_dir(env.ids[session]), template) IN
            /\ Exists(env.files, docx_path)
            /\ ret' = Written("unpack_template", session, Div(output_subdir, document_xml))
            /\ env' = [env EXCEPT !.files = WriteFile(@, Div(output_subdir, document_xml), session)]
            /\ UNCHANGED doc

\* SessionAwareDocxTools.fill_fields(field_mapping): the document of the unpacked
\* directory is saved
FillInSession ==
    \E session \in Sessions :
        LET target_dir == Div(get_unpacked_dir(env.ids[session]), template) IN
            /\ Exists(env.files, Div(target_dir, document_xml))
            /\ ret' = Written("fill_fields", session, Div(target_dir, document_xml))
            /\ env' = [env EXCEPT !.files = WriteFile(@, Div(target_dir, document_xml), session)]
            /\ UNCHANGED doc

\* SessionAwareDocxTools.pack_template()
PackInSession ==
    \E session \in Sessions :
        LET target_dir == Div(get_unpacked_dir(env.ids[session]), template)
            output_path == Div(get_output_dir(env.ids[session]), template_filled_docx) IN
            /\ Exists(env.files, Div(target_dir, document_xml))
            /\ ret' = Written("pack_template", session, output_path)
            /\ env' = [env EXCEPT !.files = WriteFile(@, output_path, session)]
            /\ UNCHANGED doc

\* SessionWorkspaceManager.cleanup_session(session_id)
cleanup_session ==
    \E session \in Sessions :
        LET session_dir == get_session_dir(env.ids[session]) IN
            /\ env.files # {}
            /\ ret' = [op |-> "cleanup_session", session |-> session, before |-> env.files,
                       written |-> {}, deleted |-> Below(env.files, session_dir)]
            /\ env' = [env EXCEPT !.files = @ \ Below(@, session_dir)]
            /\ UNCHANGED doc

InitWorkspace ==
    /\ doc = Tree(<<>>, <<>>, <<>>)
    /\ \E id1 \in SessionIds : \E id2 \in SessionIds \ {id1} :
            env = [ids |-> <<id1, id2>>, files |-> {}]
    /\ ret = NoRet

NextWorkspace ==
    PlaceInput \/ UnpackInSession \/ FillInSession \/ PackInSession \/ cleanup_session

SpecWorkspace == InitWorkspace /\ [][NextWorkspace]_vars

InitMerge ==
    /\ doc = Tree(<<>>, <<>>, <<>>)
    /\ env = GoodEnv
    /\ ret \in [op : {"extracted"}, text_data : TextInputs, table_data : TableInputs,
                sdt_data : SdtInputs]

NextMerge == MergeDataSources

SpecMerge == InitMerge /\ [][NextMerge]_vars

---------------------------------------------------------------------------
(* what the calls are checked against *)

FillReturned == ret.op = "fill_fields" /\ ret.out.status # "failed"

\* the FillingResult a strategy recorded in the last fill_fields call
ResultOf(strategy) ==
    ret.out.strategy_results[CHOOSE k \in 1..Len(ret.out.strategy_results) :
                                ret.out.strategy_results[k].strategy = strategy].res

Names(pairs) == {pairs[k][1] : k \in 1..Len(pairs)}

\* the validation result of a tier, in a list of recorded results
Recorded(results, tier) == {k \in 1..Len(results) : results[k].tier = tier}

TierResult(results, tier) == results[CHOOSE k \in Recorded(results, tier) : TRUE].result

PMText == Label \o Marker(PM)

\* C1: for a paragraph whose text is `Project Manager: {{PM}}`, however divided
\* into runs, fill_fields with {PM: "John Smith"} leaves the paragraph text equal to
\* `Project Manager: John Smith`, leaves no {{PM}} in the document, and Tier 1 passes.
C1_SimpleFill ==
    (FillReturned /\ ret.mapping = << <<PM, JohnSmith>> >>) =>
        \A p \in 1..Len(ret.pre.paras) :
            ParaText(ret.pre.paras[p]) = PMText =>
                /\ ParaText(doc.paras[p]) = Label \o JohnSmith
                /\ ~InSerialized(doc, Marker(PM))
                /\ \A q \in 1..Len(doc.paras) : ~Contains(ParaText(doc.paras[q]), Marker(PM))
                /\ Recorded(ret.out.validation.results, "Tier1-Placeholders") # {}
                /\ TierResult(ret.out.validation.results, "Tier1-Placeholders").failed = <<>>

\* C2: when the template contains the marker {{SALARY}} and the mapping has no
\* SALARY key, Tier 1 fails, fill_fields returns status partial, SALARY is reported
\* as skipped, and {{SALARY}} is still literally present in the saved document.
C2_UnfilledField ==
    (FillReturned /\ InSerialized(ret.pre, Marker(SALARY)) /\ SALARY \notin Keys(ret.mapping)) =>
        /\ Recorded(ret.out.validation.results, "Tier1-Placeholders") # {}
        /\ TierResult(ret.out.validation.results, "Tier1-Placeholders").failed # <<>>
        /\ ret.out.status = "partial"
        /\ \E k \in 1..Len(ret.out.strategy_results) :
                SALARY \in Names(ret.out.strategy_results[k].res.skipped)
        /\ ret.out.skipped > 0
        /\ InSerialized(doc, Marker(SALARY))

\* the paragraphs whose runs, children of the paragraph, are `{{CLI` and `ENT}}`
ClientSplit(paras) ==
    {p \in 1..Len(paras) :
        /\ [j \in 1..Len(paras[p].runs) |-> RunText(paras[p].runs[j])] = <<<<"{", "{", "C", "L", "I">>, <<"E", "N", "T", "}", "}">>>>
        /\ \A j \in 1..Len(paras[p].runs) : paras[p].runs[j].direct}

\* C3: for a paragraph whose runs are `{{CLI` and `ENT}}` and mapping
\* {CLIENT: "Acme"}, Strategy A records CLIENT as skipped, Strategy D records CLIENT
\* as filled, the paragraph's final text is `Acme`, and CLIENT is in the aggregate
\* filled list.
C3_SplitMarker ==
    (FillReturned /\ ret.mapping = << <<CLIENT, Acme>> >>) =>
        \A p \in ClientSplit(ret.pre.paras) :
            /\ CLIENT \in Names(ResultOf("A-Text").skipped)
            /\ CLIENT \notin Range(ResultOf("A-Text").filled)
            /\ CLIENT \in Range(ResultOf("D-Multirun").filled)
            /\ ParaText(doc.paras[p]) = Acme
            /\ CLIENT \in ret.out.filled

C3_Witness ==
    /\ FillReturned
    /\ ret.mapping = << <<CLIENT, Acme>> >>
    /\ \E p \in ClientSplit(ret.pre.paras) : ParaText(doc.paras[p]) = Acme
    /\ ret.out.logD # <<>>

\* a cell with no text
EmptyCell(cell) == Strip(CellText(cell), Whitespace) = <<>>

\* C4: filling a table that has a header row and one template row with empty
\* cells, with n records, yields a table of exactly 1 + n rows: the header row,
\* then one row per record carrying the record's values under the matching header
\* columns.
C4_TableRows ==
    (ret.op = "fill_table" /\ ~ret.raised /\ ret.table_index < Len(ret.pre.tables)) =>
        LET before == ret.pre.tables[ret.table_index + 1]
            after == doc.tables[ret.table_index + 1]
            n == Len(ret.table_data)
        IN  (Len(before) = 2 /\ \A c \in 1..Len(before[2]) : EmptyCell(before[2][c])) =>
                /\ Len(after) = 1 + n
                /\ after[1] = before[1]
                /\ \A k \in 1..n : \A c \in 1..Len(before[1]) :
                        LET header == Strip(CellText(before[1][c]), Whitespace)
                        IN  header \in DOMAIN ret.table_data[k] =>
                                CellText(after[1 + k][c]) = ret.table_data[k][header]

\* C5: whenever Strategy A replaces a run, the new run's run-properties are those
\* of the run it replaced (none when that run had none); whenever Strategy D
\* rebuilds a paragraph, the new run's run-properties are those of the first run
\* the paragraph had before the rebuild.
C5_FormattingKept ==
    FillReturned =>
        /\ \A k \in 1..Len(ret.out.logA) :
                LET ev == ret.out.logA[k]
                    replaced == ev.before[ev.at[1]].runs[ev.at[2]]
                IN  /\ ev.new.rpr = replaced.rpr
                    /\ ev.after[ev.at[1]].runs[ev.at[2]].rpr = replaced.rpr
        /\ \A k \in 1..Len(ret.out.logD) :
                LET ev == ret.out.logD[k]
                IN  /\ ev.new.rpr = ret.out.beforeD[ev.para].runs[1].rpr
                    /\ \E j \in 1..Len(ev.after.runs) :
                            /\ ev.after.runs[j].ts = <<ret.mapping[CHOOSE n \in 1..Len(ret.mapping) :
                                                            ret.mapping[n][1] = ev.name][2]>>
                            /\ ev.after.runs[j].rpr = ret.out.beforeD[ev.para].runs[1].rpr

C5_Witness ==
    /\ FillReturned
    /\ \E k \in 1..Len(ret.out.logA) : ret.out.logA[k].new.rpr = "b"
    /\ \E k \in 1..Len(ret.out.logD) : ret.out.logD[k].new.rpr = "i"

\* the four marker formats of a name
MarkersOf(name) ==
    {<<"{", "{">> \o name \o <<"}", "}">>, <<"[">> \o name \o <<"]">>,
     <<"_", "_">> \o name \o <<"_", "_">>, <<"<", "<">> \o name \o <<">", ">">>}

\* a key without the delimiter characters around it
CleanKey(key) == Strip(key, {"{", "}", " ", "[", "]", "_", "<", ">"})

\* no marker of any key of the mapping is left in the text of a paragraph
Consumed(tree, mapping) ==
    \A n \in 1..Len(mapping) : \A name \in {mapping[n][1], CleanKey(mapping[n][1])} :
        \A marker \in MarkersOf(name) : \A p \in 1..Len(tree.paras) :
            ~Contains(ParaText(tree.paras[p]), marker)

\* C6: when the first application of fill_with_all_strategies with a mapping has
\* consumed every marker, applying it again with the same mapping leaves the
\* document as the first application left it: the same text and the same runs.
C6_Idempotent ==
    (FillReturned /\ Consumed(doc, ret.mapping)) =>
        LET again == fill_with_all_strategies(doc, env, ret.mapping)
        IN  /\ again.tree = doc
            /\ again.logA = <<>>
            /\ again.logD = <<>>

C6_Witness ==
    /\ FillReturned
    /\ Consumed(doc, ret.mapping)
    /\ ~Consumed(ret.pre, ret.mapping)
    /\ ret.out.logA # <<>>
    /\ ResultOf("B-SDT").filled # <<>>

AllTiers == {"Tier1-Placeholders", "Tier2-Integrity", "Tier3-XML"}

\* C8: every call of validate_all that returns has run all three tiers: each
\* tier's result is recorded and listed in the report even when an earlier tier has
\* failed, and the call returns true exactly when none of the three tiers recorded
\* a failure.
C8_AllTiersRun ==
    (ret.op = "validate_all" /\ ~ret.out.raised) =>
        /\ \A tier \in AllTiers :
                /\ Cardinality(Recorded(ret.out.results, tier)) = 1
                /\ \E k \in 1..Len(ret.report) :
                        /\ ret.report[k].tier = tier
                        /\ ret.report[k].failed = TierResult(ret.out.results, tier).failed
        /\ ret.out.all_valid <=>
                \A tier \in AllTiers : TierResult(ret.out.results, tier).failed = <<>>

\* the verdict of Tier 2 in a directory, read off the files
MandatoryMissing(e) == {f \in {"word/document.xml", "[Content_Types].xml", "_rels/.rels"} : f \notin e.files}

OptionalMissing(e) ==
    {f \in {"word/styles.xml", "word/fontTable.xml", "word/numbering.xml", "customXml/"} : f \notin e.files}

MainUnreadable(e) == "word/document.xml" \notin e.files \/ ~e.readable

\* C9: Tier 2 records a failure exactly when a mandatory part is missing or the
\* main part cannot be read; an absent optional part or a missing XML declaration
\* adds a warning and no failure; the outcome is the same whatever the expected
\* fields are.
C9_Tier2 ==
    (ret.op = "validate_all" /\ ~ret.out.raised) =>
        LET tier2 == TierResult(ret.out.results, "Tier2-Integrity")
            e == ret.pre
        IN  /\ (tier2.failed # <<>>) <=> (MandatoryMissing(e) # {} \/ MainUnreadable(e))
            /\ \A f \in OptionalMissing(e) :
                    /\ <<"Optional Files", <<"Missing", f>>>> \in Range(tier2.warnings)
                    /\ \A k \in 1..Len(tier2.failed) : tier2.failed[k][1] # "Optional Files"
            /\ (~MainUnreadable(e) /\ ~e.decl) =>
                    /\ \E k \in 1..Len(tier2.warnings) : tier2.warnings[k][1] = "XML Format"
                    /\ \A k \in 1..Len(tier2.failed) : tier2.failed[k][1] # "XML Format"
            /\ \A other \in ExpectedFields :
                    LET out == validate_all(doc, FALSE, e, other)
                    IN  ~out.raised => TierResult(out.results, "Tier2-Integrity") = tier2

C9_Witness ==
    /\ ret.op = "validate_all"
    /\ ~ret.out.raised
    /\ Truthy(ret.expected_fields)
    /\ OptionalMissing(ret.pre) # {}
    /\ ~ret.pre.decl
    /\ TierResult(ret.out.results, "Tier2-Integrity").failed = <<>>
    /\ TierResult(ret.out.results, "Tier2-Integrity").warnings # <<>>

\* the four marker formats of a name, in the order of their priority
MarkerFormats(name) ==
    << <<"{", "{">> \o name \o <<"}", "}">>, <<"[">> \o name \o <<"]">>,
       <<"_", "_">> \o name \o <<"_", "_">>, <<"<", "<">> \o name \o <<">", ">">> >>

\* the runs whose text contains a marker
RunsWith(paras, marker) ==
    {pos \in RunPositions(paras) : Contains(RunText(paras[pos[1]].runs[pos[2]]), marker)}

\* the events Strategy A logged for the keys before the n-th one, and the
\* paragraphs as the n-th key of the mapping found them
EventsBefore(n) ==
    {j \in 1..Len(ret.out.logA) :
        \E m \in 1..(n - 1) : ret.mapping[m][1] = ret.out.logA[j].name}

ParasBefore(n) ==
    IF EventsBefore(n) = {} THEN ret.pre.paras
    ELSE ret.out.logA[CHOOSE j \in EventsBefore(n) : \A i \in EventsBefore(n) : i <= j].after

\* Strategy A's handling of the n-th key, the markers being those of Name(key)
FirstFormatWins(Name(_), n) ==
    LET key == ret.mapping[n][1]
        value == ret.mapping[n][2]
        formats == MarkerFormats(Name(key))
        before == ParasBefore(n)
        present == {i \in 1..4 : RunsWith(before, formats[i]) # {}}
        events == {j \in 1..Len(ret.out.logA) : ret.out.logA[j].name = key}
        errored == key \in Names(ResultOf("A-Text").errors)
        skipped == key \in Names(ResultOf("A-Text").skipped)
    IN  IF present = {}
        THEN events = {} /\ skipped /\ ~errored
        ELSE LET first == CHOOSE i \in present : \A j \in present : i <= j
             IN  IF ~WellFormedText(value)
                 THEN events = {} /\ errored /\ ~skipped
                 ELSE /\ Cardinality(events) = 1
                      /\ ~skipped
                      /\ \A j \in events :
                            LET ev == ret.out.logA[j]
                            IN  /\ ev.format = first
                                /\ ev.before = before
                                /\ ev.at \in RunsWith(before, formats[first])
                                /\ RunText(ev.after[ev.at[1]].runs[ev.at[2]]) = value
                                /\ \A q \in 1..Len(before) :
                                        /\ Len(ev.after[q].runs) = Len(before[q].runs)
                                        /\ \A r \in 1..Len(before[q].runs) :
                                                <<q, r>> # ev.at =>
                                                    ev.after[q].runs[r] = before[q].runs[r]

FormatPriority(Name(_)) ==
    FillReturned =>
        /\ \A n \in 1..Len(ret.mapping) : FirstFormatWins(Name, n)
        /\ ret.out.afterA = ParasBefore(Len(ret.mapping) + 1)

AsGiven(key) == key

ValueOf(key) ==
    ret.mapping[CHOOSE n \in 1..Len(ret.mapping) : ret.mapping[n][1] = key][2]

\* the keys whose marker Strategy A or Strategy D came across in the last call
MetByA == {ret.mapping[n][1] : n \in {m \in 1..Len(ret.mapping) :
                \E i \in 1..4 : RunsWith(ParasBefore(m),
                                         MarkerFormats(CleanKey(ret.mapping[m][1]))[i]) # {}}}

MetByD == {ret.mapping[n][1] : n \in {m \in 1..Len(ret.mapping) :
                \E p \in 1..Len(ret.out.beforeD) :
                    Contains(ParaText(ret.out.beforeD[p]),
                             MarkerFormats(ret.mapping[m][1])[1])}}

\* C11: for every value of the mapping, values with <, > or & included, the run
\* Strategy A or Strategy D writes for a key has exactly one text child, equal to
\* the value character for character, and the fill of the key does not fail:
\* a key whose marker a strategy came across is filled by it, with no error.
C11_ValueIsText ==
    FillReturned =>
        /\ \A key \in MetByA :
                /\ key \notin Names(ResultOf("A-Text").errors)
                /\ \E j \in 1..Len(ret.out.logA) :
                        /\ ret.out.logA[j].name = key
                        /\ ret.out.logA[j].new.ts = <<ValueOf(key)>>
        /\ \A key \in MetByD :
                /\ key \notin Names(ResultOf("D-Multirun").errors)
                /\ \E j \in 1..Len(ret.out.logD) :
                        /\ ret.out.logD[j].name = key
                        /\ ret.out.logD[j].new.ts = <<ValueOf(key)>>

\* C12: StrategyF.fill records every condition of its input, whatever its boolean
\* value, as skipped with a non-empty reason, records no condition as filled, and
\* leaves the document unchanged.
C12_ConditionsSkipped ==
    ret.op = "StrategyF.fill" =>
        /\ \A n \in 1..Len(ret.conditions) :
                \E k \in 1..Len(ret.res.skipped) :
                    /\ ret.res.skipped[k][1] = ret.conditions[n][1]
                    /\ ret.res.skipped[k][2] # ""
        /\ ret.res.filled = <<>>
        /\ doc = ret.pre

\* a key in the style of an element id
IdStyle(key) == Len(key) >= 6 /\ SubSeq(key, 1, 6) = <<"f", "i", "e", "l", "d", "_">>

\* C13: every fill_fields call that returns a filled document has applied the five
\* implemented strategies to the mapping in the order A, B, C, D, E (C only when a
\* key of the mapping is prefixed field_) before the tree was saved, and lists in
\* strategies_used exactly those strategies, in that order.
C13_FiveStrategies ==
    FillReturned =>
        /\ ret.out.strategies_used =
                <<"A-Text", "B-SDT">>
                \o (IF \E n \in 1..Len(ret.mapping) : IdStyle(ret.mapping[n][1])
                    THEN <<"C-ID">> ELSE <<>>)
                \o <<"D-Multirun", "E-Table">>
        /\ ret.out.strategies_used =
                [k \in 1..Len(ret.out.strategy_results) |-> ret.out.strategy_results[k].strategy]
        /\ doc = ret.out.tree

\* a field is in exactly one of the three lists of a strategy's result
Outcomes(res, name) ==
    (IF name \in Range(res.filled) THEN 1 ELSE 0)
    + Cardinality({k \in 1..Len(res.skipped) : res.skipped[k][1] = name})
    + Cardinality({k \in 1..Len(res.errors) : res.errors[k][1] = name})

\* every error of a result carries a message
WithMessages(res) == \A k \in 1..Len(res.errors) : res.errors[k][2] # ""

\* the runs that carry an id
RunsWithId(paras, elem_id) ==
    {pos \in RunPositions(paras) : paras[pos[1]].runs[pos[2]].id = elem_id}

\* C14: in every strategy an exception raised while one field (one row, in
\* Strategy E) is processed is recorded in the strategy's errors under the name
\* of the field (row) with its message, and the remaining fields (rows) of the
\* call are still processed: each has its own outcome.  A query that finds no
\* node gives the field a skipped entry and no error.
C14_ErrorsPerField ==
    /\ FillReturned =>
        /\ \A n \in 1..Len(ret.mapping) :
                LET key == ret.mapping[n][1]
                IN  /\ Outcomes(ResultOf("A-Text"), key) = 1
                    /\ key \notin MetByA =>
                            /\ key \in Names(ResultOf("A-Text").skipped)
                            /\ key \notin Names(ResultOf("A-Text").errors)
                    /\ (key \in MetByA /\ WellFormedText(ret.mapping[n][2])) =>
                            key \in Range(ResultOf("A-Text").filled)
                    /\ key \in MetByD =>
                            Outcomes(ResultOf("D-Multirun"), key) = 1
                    /\ (key \in MetByD /\ WellFormedText(ret.mapping[n][2])) =>
                            key \in Range(ResultOf("D-Multirun").filled)
                    /\ IdStyle(key) =>
                            /\ Outcomes(ResultOf("C-ID"), key) = 1
                            /\ RunsWithId(ret.out.afterA, key) = {} =>
                                    key \in Names(ResultOf("C-ID").skipped)
        /\ \A k \in 1..Len(ret.pre.sdts) :
                (ret.pre.sdts[k].alias \in Keys(ret.mapping)) =>
                    Outcomes(ResultOf("B-SDT"), ret.pre.sdts[k].alias) >= 1
        /\ \A k \in 1..Len(ret.out.strategy_results) :
                WithMessages(ret.out.strategy_results[k].res)
    /\ (ret.op = "fill_table" /\ ~ret.raised /\ ret.table_index < Len(ret.pre.tables)) =>
        (Len(ret.pre.tables[ret.table_index + 1]) >= 2 =>
            /\ \A idx \in 0..(Len(ret.table_data) - 1) : Outcomes(ret.res, <<"row", idx>>) = 1
            /\ WithMessages(ret.res)
            /\ Len(doc.tables[ret.table_index + 1]) = 2 + Len(ret.res.filled))

C14_Witness ==
    /\ FillReturned
    /\ Len(ret.mapping) = 2
    /\ ret.mapping[1][1] \in Names(ResultOf("A-Text").errors)
    /\ ret.mapping[2][1] \in Range(ResultOf("A-Text").filled)
    /\ ResultOf("B-SDT").errors # <<>>
    /\ ResultOf("B-SDT").filled # <<>>

\* the fill ran to completion: the main part was loaded and the saves did not raise
RanToCompletion == Loadable(ret.dir) /\ ~SaveRaises(ret.dir)

\* validate_all returned true: no tier it ran recorded a failure
ValidatedTrue ==
    \A k \in 1..Len(ret.out.validation.results) :
        ret.out.validation.results[k].result.failed = <<>>

\* C15: fill_fields never raises: for every directory and mapping it returns a
\* result whose status is success, partial or failed; success exactly when the
\* fill ran to completion and validate_all returned true, partial when it ran to
\* completion and validate_all returned false, failed when an exception escaped
\* the load, the fill, the save or the validation.
C15_AlwaysAStatus ==
    ret.op = "fill_fields" =>
        /\ ret.out.status \in {"success", "partial", "failed"}
        /\ "status" \in ret.out.keys
        /\ ret.out.status = "success" <=> (RanToCompletion /\ ValidatedTrue)
        /\ ret.out.status = "partial" <=> (RanToCompletion /\ ~ValidatedTrue)
        /\ ret.out.status = "failed" <=> ~RanToCompletion
        /\ RanToCompletion => Len(ret.out.validation.results) >= 2

C15_Witness ==
    /\ ret.op = "fill_fields"
    /\ Loadable(ret.dir)
    /\ SaveRaises(ret.dir)
    /\ ret.mapping # <<>>
    /\ ret.out.status = "failed"

\* the fields the strategies of the last call recorded as errored
ErroredFields ==
    UNION {Names(ret.out.strategy_results[k].res.errors) : k \in 1..Len(ret.out.strategy_results)}

\* the entries of the returned dict that say nothing of errors: the status, the
\* filled names, the skipped count, the strategy names, the validation verdict and
\* the summary line (filled names and skipped count)
SilentKeys ==
    {"status", "filled", "skipped", "strategies_used", "validation_passed", "summary"}

\* C16: the result fill_fields returns accounts for every outcome the strategies
\* recorded: filled fields are listed, skipped fields counted, and when a strategy
\* recorded a field as errored the result has an entry that surfaces the errors.
C16_ErrorsSurfaced ==
    FillReturned =>
        /\ ret.out.filled = UNION {Range(ret.out.strategy_results[k].res.filled) :
                                    k \in 1..Len(ret.out.strategy_results)}
        /\ ret.out.skipped = AllSkipped(ret.out.strategy_results)
        /\ ErroredFields # {} => ret.out.keys \ SilentKeys # {}

InsertReturned == ret.op = "insert_placeholders"

\* the load and the save of the call did not raise
InsertCompleted == Loadable(ret.dir) /\ ~SaveRaises(ret.dir)

\* the names of the fields at the indexes in S, in the order of the list, from index i on
RECURSIVE NamesAt(_, _, _)
NamesAt(fields, S, i) ==
    IF i > Len(fields) THEN <<>>
    ELSE (IF i \in S THEN <<fields[i].field_name>> ELSE <<>>) \o NamesAt(fields, S, i + 1)

HasName(f) == f.field_name # <<>>

\* the label occurs in the serialisation of a paragraph of the tree
LabelFound(tree, label) == label # <<>> /\ LabelParagraphs(tree.paras, label) # {}

\* the lists of the result divide the named fields: each is in one list, in the order
\* of the input, and the inserted ones have a label that is found
Accounted(named, out) ==
    \E S \in SUBSET (1..Len(named)) :
        /\ out.inserted_fields = NamesAt(named, S, 1)
        /\ out.failed_fields = NamesAt(named, (1..Len(named)) \ S, 1)
        /\ \A k \in S : LabelFound(out.tree, named[k].label)

RenderedLabelParagraphs(paragraphs, label) ==
    {i \in 1..Len(paragraphs) : Contains(ParaText(paragraphs[i]), label)}

\* paragraph i has one more run than before, a run without properties whose text is
\* the marker of the name (leading or trailing blanks aside), and all else is as before
MarkerAppended(before, after, i, field_name) ==
    /\ Len(after) = Len(before)
    /\ \A p \in 1..Len(before) : p # i => after[p] = before[p]
    /\ after[i].ppr = before[i].ppr
    /\ Len(after[i].runs) = Len(before[i].runs) + 1
    /\ SubSeq(after[i].runs, 1, Len(before[i].runs)) = before[i].runs
    /\ Strip(RunText(after[i].runs[Len(after[i].runs)]), Whitespace) = Marker(field_name)

\* C18: for a field, insert_placeholders selects the first paragraph in document
\* order whose rendered text contains the label; with location below_label and a
\* following paragraph it appends one new run with the text {{name}} to the following
\* paragraph, otherwise it appends the marker run to the matched paragraph; exactly
\* one marker run is added for an inserted field.  Stated of the calls with one field.
C18_RenderedLabel ==
    (InsertReturned /\ InsertCompleted /\ Len(ret.fields) = 1
        /\ ret.fields[1].field_name # <<>> /\ ret.fields[1].label # <<>>) =>
        IF RenderedLabelParagraphs(ret.pre.paras, ret.fields[1].label) = {}
        THEN doc = ret.pre /\ ret.out.failed_fields = <<ret.fields[1].field_name>>
        ELSE /\ ret.out.inserted_fields = <<ret.fields[1].field_name>>
             /\ MarkerAppended(ret.pre.paras, doc.paras,
                    IF ret.fields[1].location = "below_label"
                       /\ First(RenderedLabelParagraphs(ret.pre.paras, ret.fields[1].label)) < Len(ret.pre.paras)
                    THEN First(RenderedLabelParagraphs(ret.pre.paras, ret.fields[1].label)) + 1
                    ELSE First(RenderedLabelParagraphs(ret.pre.paras, ret.fields[1].label)),
                    ret.fields[1].field_name)

\* the texts a marker run made for one of the fields can hold
MarkerTexts(fields) ==
    UNION {{Marker(fields[k].field_name), <<" ">> \o Marker(fields[k].field_name)} :
            k \in {j \in 1..Len(fields) : fields[j].field_name # <<>>}}

\* the runs of paragraph p that the call added
AddedRuns(p) == SubSeq(doc.paras[p].runs, Len(ret.pre.paras[p].runs) + 1, Len(doc.paras[p].runs))

RECURSIVE Sum(_, _)
Sum(f, n) == IF n = 0 THEN 0 ELSE f[n] + Sum(f, n - 1)

\* C19: insert_placeholders only adds content: after a call every paragraph, run and
\* text node that was there before is still there, with the same content and in the
\* same order, and the only new nodes are marker runs appended as last children of
\* paragraphs that were there, one for each inserted field.
C19_OnlyAdds ==
    InsertReturned =>
        /\ doc.sdts = ret.pre.sdts /\ doc.tables = ret.pre.tables
        /\ Len(doc.paras) = Len(ret.pre.paras)
        /\ \A p \in 1..Len(doc.paras) :
            /\ doc.paras[p].ppr = ret.pre.paras[p].ppr
            /\ Len(doc.paras[p].runs) >= Len(ret.pre.paras[p].runs)
            /\ SubSeq(doc.paras[p].runs, 1, Len(ret.pre.paras[p].runs)) = ret.pre.paras[p].runs
            /\ \A r \in 1..Len(AddedRuns(p)) :
                /\ AddedRuns(p)[r].rpr = NoRPr /\ AddedRuns(p)[r].id = <<>> /\ AddedRuns(p)[r].direct
                /\ Len(AddedRuns(p)[r].ts) = 1
                /\ AddedRuns(p)[r].ts[1] \in MarkerTexts(ret.fields)
        /\ Sum([p \in 1..Len(doc.paras) |-> Len(AddedRuns(p))], Len(doc.paras))
                = Len(ret.out.inserted_fields)

\* two fields were inserted, one of them into a paragraph that held runs already
C19_Witness ==
    /\ InsertReturned /\ InsertCompleted
    /\ Len(ret.out.inserted_fields) = 2
    /\ \E p \in 1..Len(doc.paras) : ret.pre.paras[p].runs # <<>> /\ AddedRuns(p) # <<>>

\* the format a logged replacement of Strategy A matched
MatchedFormat(ev) == try_placeholder_formats(ev.name)[ev.format]

\* the runs Strategy A left other than it found them
ReplacedByA == {pos \in RunPositions(ret.pre.paras) :
                    ret.out.afterA[pos[1]].runs[pos[2]] # ret.pre.paras[pos[1]].runs[pos[2]]}

\* C20: in one StrategyA.fill call at most one run is replaced for a mapping key;
\* when the marker of the key occurs in several runs, the first of them in document
\* order is the one replaced and every other run holding the marker is left as it was.
C20_FirstOccurrenceOnly ==
    FillReturned =>
        /\ \A j, k \in 1..Len(ret.out.logA) :
                ret.out.logA[j].name = ret.out.logA[k].name => j = k
        /\ ReplacedByA \subseteq {ret.out.logA[j].at : j \in 1..Len(ret.out.logA)}
        /\ \A j \in 1..Len(ret.out.logA) :
                \A g \in RunsWith(ret.out.logA[j].before, MatchedFormat(ret.out.logA[j])) :
                    /\ Before(ret.out.logA[j].at, g)
                    /\ g # ret.out.logA[j].at =>
                            ret.out.logA[j].after[g[1]].runs[g[2]]
                                = ret.out.logA[j].before[g[1]].runs[g[2]]

\* the marker of a key was in two runs: Strategy A replaced the first and the second
\* holds the marker still
C20_Witness ==
    /\ FillReturned
    /\ \E j \in 1..Len(ret.out.logA) :
        \E g \in RunsWith(ret.out.logA[j].before, MatchedFormat(ret.out.logA[j])) :
            /\ g # ret.out.logA[j].at
            /\ Contains(RunText(ret.out.afterA[g[1]].runs[g[2]]), MatchedFormat(ret.out.logA[j]))
            /\ ~Contains(RunText(ret.out.afterA[ret.out.logA[j].at[1]].runs[ret.out.logA[j].at[2]]),
                         MatchedFormat(ret.out.logA[j]))

\* the runs of a paragraph that are its direct children
DirectRuns(para) == SelectSeq(para.runs, LAMBDA run : run.direct)

\* the paragraphs for which Strategy D recorded a key as filled
FiredByD == {ret.out.logD[k].para : k \in 1..Len(ret.out.logD)}

\* C21: after StrategyD.fill every paragraph on which D fired has exactly one run as
\* a direct child, the new run carrying the value, placed right after the paragraph
\* properties when there are some and appended otherwise, however many mapping keys
\* have their marker in the text of the paragraph.
C21_OneRunPerParagraph ==
    (FillReturned /\ ret.out.status # "failed") =>
        \A p \in FiredByD :
            /\ Len(DirectRuns(doc.paras[p])) = 1
            /\ \E n \in 1..Len(ret.mapping) : DirectRuns(doc.paras[p])[1].ts = <<ret.mapping[n][2]>>
            /\ IF doc.paras[p].ppr THEN doc.paras[p].runs[1].direct
               ELSE doc.paras[p].runs[Len(doc.paras[p].runs)].direct

\* the w:t elements of a structured tag that own a text node
TextNodesOf(sdt) == {i \in 1..Len(sdt.ts) : sdt.ts[i] # <<>>}

\* C22: StrategyB.fill sets the first text node inside the content of every
\* structured tag whose alias is a mapping key to the value of the key and records the
\* key as filled; such a tag without a content sub-tree or without a text node is
\* recorded as skipped; the tags whose alias is no mapping key, and every other text
\* node, are left as they were.
C22_SdtFilled ==
    (FillReturned /\ ret.out.status # "failed") =>
        /\ Len(doc.sdts) = Len(ret.pre.sdts)
        /\ \A k \in 1..Len(ret.pre.sdts) :
            IF ret.pre.sdts[k].alias \notin Keys(ret.mapping)
            THEN doc.sdts[k] = ret.pre.sdts[k]
            ELSE IF ret.pre.sdts[k].content /\ TextNodesOf(ret.pre.sdts[k]) # {}
            THEN /\ ret.pre.sdts[k].alias \in Range(ResultOf("B-SDT").filled)
                 /\ doc.sdts[k] =
                        [ret.pre.sdts[k] EXCEPT !.ts[First(TextNodesOf(ret.pre.sdts[k]))] =
                                                    Lookup(ret.mapping, ret.pre.sdts[k].alias)]
            ELSE /\ ret.pre.sdts[k].alias \in Names(ResultOf("B-SDT").skipped)
                 /\ doc.sdts[k] = ret.pre.sdts[k]

\* the text of the content of a structured tag
ContentText(sdt) == IF sdt.content THEN Join(sdt.ts) ELSE <<>>

\* what the claim has Tier 1 fail for
Unfilled(tree, expected_fields) ==
    \E k \in 1..Len(expected_fields) :
        \/ InSerialized(tree, Marker(expected_fields[k]))
        \/ \E j \in 1..Len(tree.sdts) :
                /\ tree.sdts[j].alias = expected_fields[k]
                /\ Strip(ContentText(tree.sdts[j]), Whitespace) = <<>>

\* C23: Tier 1 fails exactly when, for some expected field name, the serialised main
\* part still contains {{name}} or a structured tag with that alias has empty or
\* blank content (content without any text node included); otherwise it records a
\* pass, so also for an empty list of expected fields.
C23_Tier1Exact ==
    ret.op = "Tier1.validate" =>
        /\ Len(ret.result.failed) + Len(ret.result.passed) = 1
        /\ Len(ret.result.failed) = 1 <=> Unfilled(doc, ret.expected_fields)

\* row is a clone of the template row filled from the record: a cell under a header
\* the record has a value for holds that value, every other cell is the template's
FilledClone(row, header_row, template_row, row_data) ==
    /\ Len(row) = Len(template_row)
    /\ \A c \in 1..Len(row) :
        IF c <= Len(header_row) /\ Strip(CellText(header_row[c]), Whitespace) \in DOMAIN row_data
        THEN CellText(row[c]) = row_data[Strip(CellText(header_row[c]), Whitespace)]
        ELSE row[c] = template_row[c]

\* C24: StrategyE.fill on a table of at least two rows leaves the header row and the
\* template row as they were, removes every other row there was, and appends one
\* clone of the template row for each record, in the order of the records, its cells
\* overwritten with the values of the record by header name; with a table index out
\* of range or a table of fewer than two rows it records an error and changes nothing.
C24_TableFilled ==
    (ret.op = "fill_table" /\ ~ret.raised) =>
        IF ret.table_index < Len(ret.pre.tables) /\ Len(ret.pre.tables[ret.table_index + 1]) >= 2
        THEN /\ Len(doc.tables[ret.table_index + 1]) = 2 + Len(ret.table_data)
             /\ SubSeq(doc.tables[ret.table_index + 1], 1, 2)
                    = SubSeq(ret.pre.tables[ret.table_index + 1], 1, 2)
             /\ \A k \in 1..Len(ret.table_data) :
                    FilledClone(doc.tables[ret.table_index + 1][2 + k],
                                ret.pre.tables[ret.table_index + 1][1],
                                ret.pre.tables[ret.table_index + 1][2], ret.table_data[k])
             /\ \A t \in 1..Len(doc.tables) :
                    t # ret.table_index + 1 => doc.tables[t] = ret.pre.tables[t]
        ELSE doc.tables = ret.pre.tables /\ ret.res.errors # <<>>

\* C25: in a session where unpack_template(T) and extract_all_data(S) have both run,
\* in either order, every later fill_fields, insert_placeholders and pack_template
\* call works on the directory unpacked from the template T, never on the directory
\* `source` unpacked from S.  Stated of the sessions that unpacked one template.
C25_TemplateDirectory ==
    (ret.op \in {"fill_fields", "insert_placeholders", "pack_template"}
        /\ DOMAIN ret.before = {"template", "source"}) =>
        ret.found /\ ret.target = "template"

\* C28: every extract_all_data(f) call of a session returns the data of the input
\* file f, also after an earlier call with another file.
C28_ExtractsGivenFile ==
    (ret.op = "extract_all_data" /\ ret.found) => ret.data = InputFiles[ret.filename]

\* C26: fill_fields returns the status success only if every key of the mapping is in
\* the returned filled list: a key that no strategy filled never goes with success.
C26_SuccessMeansFilled ==
    (FillReturned /\ ret.out.status = "success") => Keys(ret.mapping) \subseteq ret.out.filled

\* no strategy of the call recorded an error
NoErrors == ErroredFields = {}

\* the values of the mapping hold no marker text
PlainValues == \A n \in 1..Len(ret.mapping) :
                    ~Contains(ret.mapping[n][2], <<"{", "{">>) /\ ~Contains(ret.mapping[n][2], <<"}", "}">>)

\* C27: after fill_with_all_strategies has returned without a recorded error, the
\* values holding no marker text, no paragraph text contains {{k}} for a key k of
\* the mapping, also when {{k}} was in several runs or in several paragraphs.
C27_NoMarkerLeft ==
    (FillReturned /\ ret.out.status # "failed" /\ NoErrors /\ PlainValues) =>
        \A k \in Keys(ret.mapping) : \A p \in 1..Len(doc.paras) :
            ~Contains(ParaText(doc.paras[p]), Marker(k))

\* the paragraphs insert_placeholders appended a marker of the name to
MarkedFor(name) ==
    {p \in 1..Len(ret.pre.paras) :
        \E r \in (Len(ret.inserted.pre.paras[p].runs) + 1)..Len(ret.pre.paras[p].runs) :
            Contains(RunText(ret.pre.paras[p].runs[r]), Marker(name))}

\* C29: after insert_placeholders has reported a field NAME as inserted, a following
\* fill_fields call whose mapping has the key NAME lists NAME in filled, leaves no
\* {{NAME}} in the document, and leaves the text the marked paragraphs had before
\* the insertion as it was.
C29_InsertThenFill ==
    (ret.op = "fill_fields" /\ "inserted" \in DOMAIN ret /\ ret.out.status # "failed") =>
        \A name \in Range(ret.inserted.out.inserted_fields) \cap Keys(ret.mapping) :
            /\ name \in ret.out.filled
            /\ \A p \in 1..Len(doc.paras) : ~Contains(ParaText(doc.paras[p]), Marker(name))
            /\ \A p \in MarkedFor(name) :
                    StartsWith(ParaText(doc.paras[p]), ParaText(ret.inserted.pre.paras[p]))

\* the directories of the two sessions, as the file system sees them
SessionDir(session) == Resolve(get_session_dir(env.ids[session]))

Apart == ~StartsWith(SessionDir(1), SessionDir(2)) /\ ~StartsWith(SessionDir(2), SessionDir(1))

\* a step of one session wrote over, or deleted, a file the other session wrote
Trespassed ==
    /\ ret.op \in {"upload", "unpack_template", "fill_fields", "pack_template", "cleanup_session"}
    /\ "session" \in DOMAIN ret
    /\ \E f \in ret.before : f.by # ret.session /\ (f.path \in ret.written \/ f \in ret.deleted)

\* C30: for two distinct session ids the session directories are distinct and neither
\* lies inside the other, no unpack, fill or pack step of one session writes a file
\* the other session wrote, and cleanup_session of one session deletes no file of the
\* other.
C30_SessionsApart == "ids" \in DOMAIN env => (Apart /\ ~Trespassed)

====
